---------------------------- MODULE Spec2Model ----------------------------
(***************************************************************************)
(* Model of scripts/classify_skus.py: the ABC/XYZ SKU classification       *)
(* engine (depletion reader, key resolution, master-data merge,            *)
(* compute_abc, compute_xyz).                                              *)
(*                                                                         *)
(* Representation.                                                         *)
(*  - Text (SKU codes, labels, cell text) is a sequence of one-character   *)
(*    strings, so that strip / rstrip / startswith / substring tests are   *)
(*    computed the way Python computes them.                               *)
(*  - Numbers read from cells and the float fields of SKUData are          *)
(*    fixed-point integers in units of 1/Scale (Num(3) is 3.0, Num(2)+1 is *)
(*    2 + 1/Scale).  annual_value, a product of two such numbers, is in    *)
(*    units of 1/Scale^2.  Float rounding is not modelled.                 *)
(*  - The coefficient of variation is stdev/mean, not rational in general; *)
(*    sku.cv is kept as the exact rational cv^2 = num/den (cv >= 0), so    *)
(*    that cv < t is 100*num < (10t)^2*den.                                *)
(*  - A month key "YYYY-MM" is the integer YYYY*100 + MM.                  *)
(*  - A Python dict is a function plus, where iteration order matters,     *)
(*    the sequence of its keys in insertion order (skuOrder).              *)
(***************************************************************************)
EXTENDS Integers, Sequences, FiniteSets, TLC

VARIABLES
    pc,                 \* stage of the run
    skus,               \* dict sku_code -> SKUData
    skuOrder,           \* insertion order of skus
    view_items,         \* dict sku_code -> item (parse_view_item's result)
    monthly_data,       \* dict sku_code -> {month key -> qty out}
    abc_counts,         \* compute_abc's a_count, b_count, c_count
    current_warehouse,  \* parse_depletion's section context
    current_supplier,
    rowsRead,           \* history: the depletion rows consumed so far
    current_sku,        \* parse_activity_reports' SKU header context
    activity_counts,    \* its total_transactions, filtered_* counters
    activityRead,       \* history: the activity files and rows consumed
    supplier_name,      \* parse_view_item's section context
    next_is_dimensions, \* its look-ahead flag
    itemRead,           \* history: the item master sheet or row consumed last
    files,              \* which of the input files exist
    stagesRun,          \* history: the stages main has called, in order
    sql_written         \* whether generate_sql has written OUTPUT_SQL

vars == <<pc, skus, skuOrder, view_items, monthly_data, abc_counts,
          current_warehouse, current_supplier, rowsRead,
          current_sku, activity_counts, activityRead,
          supplier_name, next_is_dimensions, itemRead,
          files, stagesRun, sql_written>>

ActivityVars == <<current_sku, activity_counts, activityRead>>
MainVars == <<files, stagesRun, sql_written>>
ViewItemVars == <<supplier_name, next_is_dimensions, itemRead>>

-----------------------------------------------------------------------------
(* Bounds of the model *)

Scale == 2
MaxSkus == 3
MaxMonths == 7
MaxRows == 3
MaxActivitySteps == 4

Num(n) == n * Scale

-----------------------------------------------------------------------------
(* Program constants, lines 48-57 *)

\* ABC_A_THRESHOLD = 0.80 and ABC_B_THRESHOLD = 0.96, in percent
ABC_A_THRESHOLD == 80
ABC_B_THRESHOLD == 96
\* XYZ_X_THRESHOLD = 0.5 and XYZ_Y_THRESHOLD = 1.0, in tenths
XYZ_X_THRESHOLD == 5
XYZ_Y_THRESHOLD == 10
MIN_MONTHS_FOR_XYZ == 6
\* the literal 52 of line 403
WEEKS_PER_YEAR == 52

-----------------------------------------------------------------------------
(* Text *)

EmptyText == << >>

UpperToLower ==
    [A |-> "a", B |-> "b", C |-> "c", D |-> "d", E |-> "e", F |-> "f",
     G |-> "g", H |-> "h", I |-> "i", J |-> "j", K |-> "k", L |-> "l",
     M |-> "m", N |-> "n", O |-> "o", P |-> "p", Q |-> "q", R |-> "r",
     S |-> "s", T |-> "t", U |-> "u", V |-> "v", W |-> "w", X |-> "x",
     Y |-> "y", Z |-> "z"]

\* str.lower()
Lower(s) ==
    [i \in 1..Len(s) |->
        IF s[i] \in DOMAIN UpperToLower THEN UpperToLower[s[i]] ELSE s[i]]

RECURSIVE LStrip(_)
LStrip(s) == IF s # << >> /\ Head(s) = " " THEN LStrip(Tail(s)) ELSE s

RECURSIVE RStrip(_)
RStrip(s) ==
    IF s # << >> /\ s[Len(s)] = " " THEN RStrip(SubSeq(s, 1, Len(s) - 1)) ELSE s

\* str.strip()
Strip(s) == RStrip(LStrip(s))

\* str.startswith(p)
StartsWith(s, p) == Len(p) <= Len(s) /\ SubSeq(s, 1, Len(p)) = p

\* p in s
Contains(s, p) ==
    \E i \in 0..(Len(s) - Len(p)) : SubSeq(s, i + 1, i + Len(p)) = p

\* str.replace(p, ''), p non-empty: every occurrence, left to right
RECURSIVE Remove(_, _)
Remove(s, p) ==
    IF s = << >> THEN << >>
    ELSE IF StartsWith(s, p) THEN Remove(SubSeq(s, Len(p) + 1, Len(s)), p)
    ELSE <<Head(s)>> \o Remove(Tail(s), p)

\* str.rstrip('GT'): drops every trailing character that is G or T
RECURSIVE RStripGT(_)
RStripGT(s) ==
    IF s # << >> /\ s[Len(s)] \in {"G", "T"}
    THEN RStripGT(SubSeq(s, 1, Len(s) - 1))
    ELSE s

\* sku_code + 'GT'
PlusGT(s) == s \o <<"G", "T">>

-----------------------------------------------------------------------------
(* Data structures *)

\* an empty dict
EmptyDict == [k \in {} |-> 0]

\* sku.cv: None, a finite value cv with cv^2 = num/den, or float('inf')
CvNone == [kind |-> "none", num |-> 0, den |-> 1]
CvInf == [kind |-> "inf", num |-> 0, den |-> 1]
CvFinite(n, d) == [kind |-> "fin", num |-> n, den |-> d]
\* the float literal t/10 (0.6, 0.8, 1.2)
CvTenths(t) == CvFinite(t * t, 100)

\* class SKUData, __init__
SKUData(sku_code) ==
    [sku_code |-> sku_code,
     supplier |-> EmptyText,
     warehouse |-> EmptyText,
     avg_ship_wk |-> 0,
     wks_on_hand |-> 0,
     beginning_inv |-> 0,
     ending_inv |-> 0,
     received |-> 0,
     shipments |-> 0,
     unit_cost |-> 0,
     weight_lbs |-> 0,
     length_in |-> 0,
     width_in |-> 0,
     height_in |-> 0,
     dim_uom_units |-> Num(1),
     annual_value |-> 0,
     monthly_qty_out |-> EmptyDict,
     cv |-> CvNone,
     abc_class |-> "",
     xyz_class |-> "",
     xyz_estimated |-> FALSE]

\* the dict parse_view_item stores for a SKU row
ViewItem(cost, supplier) ==
    [cost |-> cost,
     description |-> EmptyText,
     weight_lbs |-> 0,
     length_in |-> 0,
     width_in |-> 0,
     height_in |-> 0,
     dim_uom_units |-> Num(1),
     supplier |-> supplier]

-----------------------------------------------------------------------------
(* resolve_supplier *)

\* SUPPLIER_MAP in declaration order: <<alias, code>>
SUPPLIER_MAP ==
    <<
      <<<<"a", "l", "l", "i", "a", "n", "c", "e", " ", "m", "e", "t", "a", "l", " ", "c", "h", "a", "n", "g", "z", "h", "o", "u">>,
        <<"A", "M", "C">>>>,
      <<<<"a", "m", "c">>,
        <<"A", "M", "C">>>>,
      <<<<"h", "x", "/", " ", "w", "h", "i">>,
        <<"H", "X">>>>,
      <<<<"h", "x", "/", "w", "h", "i">>,
        <<"H", "X">>>>,
      <<<<"z", "h", "o", "n", "g", "x", "i", "n", "g">>,
        <<"Z", "h", "o", "n", "g", "X", "i", "n", "g">>>>,
      <<<<"z", "h", "o", "n", "g", " ", "x", "i", "n", "g">>,
        <<"Z", "h", "o", "n", "g", "X", "i", "n", "g">>>>,
      <<<<"t", "i", "a", "n", "j", "i", "n">>,
        <<"T", "i", "a", "n", "J", "i", "n">>>>,
      <<<<"t", "i", "a", "n", "j", "i", "n", "/", "w", "h", "i">>,
        <<"T", "i", "a", "n", "J", "i", "n">>>>,
      <<<<"t", "i", "a", "n", "i", "j", "n">>,
        <<"T", "i", "a", "n", "J", "i", "n">>>>,
      <<<<"w", "i", "n", "s", "c", "h", "e", "m">>,
        <<"W", "I", "N", "S", "C", "H", "E", "M">>>>,
      <<<<"c", "h", "a", "n", "g", "z", "h", "o", "u", " ", "w", "i", "n", "s", "c", "h", "e", "m">>,
        <<"W", "I", "N", "S", "C", "H", "E", "M">>>>,
      <<<<"c", "h", "a", "n", "g", "z", "h", "o", "u", " ", "n", "u", "o", "d", "e">>,
        <<"N", "u", "o", "d", "e">>>>,
      <<<<"n", "u", "o", "d", "e">>,
        <<"N", "u", "o", "d", "e">>>>
    >>

\* FirstAlias taking the last alias that occurs, not the first
RECURSIVE FirstAlias_Last(_, _)
FirstAlias_Last(lower, i) ==
    IF i > Len(SUPPLIER_MAP) THEN 0
    ELSE LET later == FirstAlias_Last(lower, i + 1)
         IN  IF later # 0 THEN later
             ELSE IF Contains(lower, SUPPLIER_MAP[i][1]) THEN i
             ELSE 0

\* lines 113-115: the first key of SUPPLIER_MAP, from position i on, that
\* occurs in the label
RECURSIVE FirstAlias(_, _)
FirstAlias(lower, i) ==
    IF i > Len(SUPPLIER_MAP) THEN 0
    ELSE IF Contains(lower, SUPPLIER_MAP[i][1]) THEN i
    ELSE FirstAlias(lower, i + 1)

resolve_supplier(raw_name) ==
    LET lower == Strip(Lower(raw_name))
        hit == FirstAlias(lower, 1)
    IN  IF hit # 0 THEN SUPPLIER_MAP[hit][2] ELSE Strip(raw_name)

-----------------------------------------------------------------------------
(* Key lookups: exact, then sku_code.rstrip('GT'), then sku_code + 'GT' *)

\* compute_abc: the cost of a SKU, 0.0 when no key is present
CostFor(sku_code, costs) ==
    IF sku_code \in DOMAIN costs THEN costs[sku_code].cost
    ELSE IF RStripGT(sku_code) \in DOMAIN costs THEN costs[RStripGT(sku_code)].cost
    ELSE IF PlusGT(sku_code) \in DOMAIN costs THEN costs[PlusGT(sku_code)].cost
    ELSE 0

\* merge_master_data: whether an item is found, and which
HasItem(sku_code, items) ==
    \/ sku_code \in DOMAIN items
    \/ RStripGT(sku_code) \in DOMAIN items
    \/ PlusGT(sku_code) \in DOMAIN items

ItemFor(sku_code, items) ==
    IF sku_code \in DOMAIN items THEN items[sku_code]
    ELSE IF RStripGT(sku_code) \in DOMAIN items THEN items[RStripGT(sku_code)]
    ELSE items[PlusGT(sku_code)]

\* dict.get(key, {})
DictGet(d, key) == IF key \in DOMAIN d THEN d[key] ELSE EmptyDict

\* compute_xyz: the histogram of a SKU; an empty one falls through
MonthlyFor(sku_code, monthly) ==
    LET m1 == DictGet(monthly, sku_code)
        m2 == IF DOMAIN m1 = {} THEN DictGet(monthly, RStripGT(sku_code)) ELSE m1
    IN  IF DOMAIN m2 = {} THEN DictGet(monthly, PlusGT(sku_code)) ELSE m2

-----------------------------------------------------------------------------
(* merge_master_data *)

MergeOne(sku, items) ==
    IF HasItem(sku.sku_code, items)
    THEN LET item == ItemFor(sku.sku_code, items)
         IN  [sku EXCEPT
                !.unit_cost = item.cost,
                !.weight_lbs = item.weight_lbs,
                !.length_in = item.length_in,
                !.width_in = item.width_in,
                !.height_in = item.height_in,
                !.dim_uom_units = item.dim_uom_units,
                !.supplier = IF sku.supplier = EmptyText THEN item.supplier
                             ELSE sku.supplier]
    ELSE sku

merge_master_data(s, items) == [c \in DOMAIN s |-> MergeOne(s[c], items)]

-----------------------------------------------------------------------------
(* compute_abc *)

\* WithAnnualValue without the 52 weeks of line 403
WithAnnualValue_NoWeeks(s, costs) ==
    [c \in DOMAIN s |->
        LET cost == CostFor(c, costs)
        IN  [s[c] EXCEPT
               !.unit_cost = cost,
               !.annual_value = s[c].avg_ship_wk * cost]]

\* lines 392-403: unit cost and annual value of every SKU
WithAnnualValue(s, costs) ==
    [c \in DOMAIN s |->
        LET cost == CostFor(c, costs)
        IN  [s[c] EXCEPT
               !.unit_cost = cost,
               !.annual_value = s[c].avg_ship_wk * WEEKS_PER_YEAR * cost]]

\* mutant: equal keys come out in reverse input order
RECURSIVE InsertDesc_Unstable(_, _, _)
InsertDesc_Unstable(sorted, c, s) ==
    IF sorted = << >> THEN <<c>>
    ELSE IF s[Head(sorted)].annual_value > s[c].annual_value
         THEN <<Head(sorted)>> \o InsertDesc_Unstable(Tail(sorted), c, s)
         ELSE <<c>> \o sorted

\* sorted(..., key=annual_value, reverse=True): stable, equal keys keep
\* their input order
RECURSIVE InsertDesc(_, _, _)
InsertDesc(sorted, c, s) ==
    IF sorted = << >> THEN <<c>>
    ELSE IF s[Head(sorted)].annual_value >= s[c].annual_value
         THEN <<Head(sorted)>> \o InsertDesc(Tail(sorted), c, s)
         ELSE <<c>> \o sorted

RECURSIVE SortFrom(_, _, _)
SortFrom(order, acc, s) ==
    IF order = << >> THEN acc
    ELSE SortFrom(Tail(order), InsertDesc(acc, Head(order), s), s)

SortedSkus(s, order) == SortFrom(order, << >>, s)

\* cumulative after the first i records of the sorted list
RECURSIVE Cumulative(_, _, _)
Cumulative(sorted, s, i) ==
    IF i = 0 THEN 0
    ELSE Cumulative(sorted, s, i - 1) + s[sorted[i]].annual_value

\* mutant: the last branch is a test too, and a share above 1 falls through
ClassOfShare_NoElse(cumulative, total_value) ==
    IF cumulative * 100 <= ABC_A_THRESHOLD * total_value THEN "A"
    ELSE IF cumulative * 100 <= ABC_B_THRESHOLD * total_value THEN "B"
    ELSE IF cumulative <= total_value THEN "C"
    ELSE ""

\* mutant: class A is tested against the B threshold
ClassOfShare_WrongThreshold(cumulative, total_value) ==
    IF cumulative * 100 <= ABC_B_THRESHOLD * total_value THEN "A"
    ELSE "C"

\* lines 421-431: pct = cumulative / total_value against the thresholds,
\* total_value > 0
ClassOfShare(cumulative, total_value) ==
    IF cumulative * 100 <= ABC_A_THRESHOLD * total_value THEN "A"
    ELSE IF cumulative * 100 <= ABC_B_THRESHOLD * total_value THEN "B"
    ELSE "C"

CountOf(classes, cls) == Cardinality({i \in DOMAIN classes : classes[i] = cls})

\* mutant: the edge case is left out
ForceFirstA_Missing(classes, counts) == [classes |-> classes, counts |-> counts]

\* lines 433-440: ensure at least 1 A.  The class of the first record is
\* read after it has been set to A.
ForceFirstA(classes, counts) ==
    IF counts.a = 0 /\ classes # << >>
    THEN LET forced == [classes EXCEPT ![1] = "A"]
         IN  [classes |-> forced,
              counts |-> IF forced[1] = "B"
                         THEN [a |-> 1, b |-> counts.b - 1, c |-> counts.c]
                         ELSE [a |-> 1, b |-> counts.b, c |-> counts.c - 1]]
    ELSE [classes |-> classes, counts |-> counts]

\* mutant: a total of exactly 0 is not caught
IsDegenerate_Strict(total_value) == total_value < 0

\* line 409: the degenerate-data guard
IsDegenerate(total_value) == total_value <= 0

\* the whole function: the records and the counters it leaves
compute_abc(s, order, costs, counts0) ==
    LET valued == WithAnnualValue(s, costs)
        sorted == SortedSkus(valued, order)
        total_value == Cumulative(sorted, valued, Len(sorted))
    IN  IF IsDegenerate(total_value)
        THEN [skus |-> [c \in DOMAIN valued |-> [valued[c] EXCEPT !.abc_class = "C"]],
              counts |-> counts0]
        ELSE LET provisional ==
                     [i \in 1..Len(sorted) |->
                        ClassOfShare(Cumulative(sorted, valued, i), total_value)]
                 counted == [a |-> CountOf(provisional, "A"),
                             b |-> CountOf(provisional, "B"),
                             c |-> CountOf(provisional, "C")]
                 final == ForceFirstA(provisional, counted)
                 PosOf(c) == CHOOSE i \in 1..Len(sorted) : sorted[i] = c
             IN  [skus |-> [c \in DOMAIN valued |->
                              [valued[c] EXCEPT !.abc_class = final.classes[PosOf(c)]]],
                  counts |-> final.counts]

-----------------------------------------------------------------------------
(* compute_xyz *)

RECURSIVE SumOver(_, _)
SumOver(f, S) ==
    IF S = {} THEN 0
    ELSE LET k == CHOOSE k \in S : TRUE IN f[k] + SumOver(f, S \ {k})

\* lines 476-483: stdev(values) / mean(values), sample standard deviation.
\* With n values of sum sm and sum of squares sq: mean = sm/n,
\* stdev^2 = (n*sq - sm^2) / (n*(n-1)), so cv^2 = n*(n*sq - sm^2) / ((n-1)*sm^2).
MeasuredCv(monthly) ==
    LET n == Cardinality(DOMAIN monthly)
        sm == SumOver(monthly, DOMAIN monthly)
        sq == SumOver([k \in DOMAIN monthly |-> monthly[k] * monthly[k]], DOMAIN monthly)
    IN  IF sm > 0
        THEN IF n > 1 THEN CvFinite(n * (n * sq - sm * sm), (n - 1) * sm * sm)
             ELSE CvFinite(0, 1)
        ELSE CvInf

\* mutant: a velocity of exactly 10 is not in the first band
EstimatedCv_Strict(avg_ship_wk) ==
    IF avg_ship_wk > Num(10) THEN CvTenths(6)
    ELSE IF avg_ship_wk >= Num(1) THEN CvTenths(8)
    ELSE IF avg_ship_wk > 0 THEN CvTenths(12)
    ELSE CvInf

\* EstimatedCv taking a fast mover for a stable one (0.4)
EstimatedCv_Stable(avg_ship_wk) ==
    IF avg_ship_wk >= Num(10) THEN CvTenths(4)
    ELSE IF avg_ship_wk >= Num(1) THEN CvTenths(8)
    ELSE IF avg_ship_wk > 0 THEN CvTenths(12)
    ELSE CvInf

\* lines 489-496: the estimate from weekly velocity
EstimatedCv(avg_ship_wk) ==
    IF avg_ship_wk >= Num(10) THEN CvTenths(6)
    ELSE IF avg_ship_wk >= Num(1) THEN CvTenths(8)
    ELSE IF avg_ship_wk > 0 THEN CvTenths(12)
    ELSE CvInf

\* mutant: the comparison admits equality
CvBelow_OrEqual(cv, tenths) ==
    /\ cv.kind = "fin"
    /\ cv.num * 100 <= tenths * tenths * cv.den

\* cv < tenths/10
CvBelow(cv, tenths) ==
    /\ cv.kind = "fin"
    /\ cv.num * 100 < tenths * tenths * cv.den

\* ClassOfCv classing a finite cv only
ClassOfCv_FiniteOnly(cv, old) ==
    IF cv.kind # "fin" THEN old
    ELSE IF CvBelow(cv, XYZ_X_THRESHOLD) THEN "X"
    ELSE IF CvBelow(cv, XYZ_Y_THRESHOLD) THEN "Y"
    ELSE "Z"

\* lines 501-510
ClassOfCv(cv, old) ==
    IF cv.kind = "none" THEN old
    ELSE IF CvBelow(cv, XYZ_X_THRESHOLD) THEN "X"
    ELSE IF CvBelow(cv, XYZ_Y_THRESHOLD) THEN "Y"
    ELSE "Z"

\* XyzOne leaving a record without any histogram as it is
XyzOne_SkipUnmatched(sku, monthly_all) ==
    LET monthly == MonthlyFor(sku.sku_code, monthly_all)
        rated ==
            IF Cardinality(DOMAIN monthly) >= MIN_MONTHS_FOR_XYZ
            THEN [sku EXCEPT !.cv = MeasuredCv(monthly),
                             !.monthly_qty_out = monthly]
            ELSE IF DOMAIN monthly = {} THEN sku
            ELSE [sku EXCEPT !.cv = EstimatedCv(sku.avg_ship_wk),
                             !.xyz_estimated = TRUE]
    IN  [rated EXCEPT !.xyz_class = ClassOfCv(rated.cv, rated.xyz_class)]

\* XyzOne measuring only with more than MIN_MONTHS_FOR_XYZ months
XyzOne_MoreThanMin(sku, monthly_all) ==
    LET monthly == MonthlyFor(sku.sku_code, monthly_all)
        rated ==
            IF Cardinality(DOMAIN monthly) > MIN_MONTHS_FOR_XYZ
            THEN [sku EXCEPT !.cv = MeasuredCv(monthly),
                             !.monthly_qty_out = monthly]
            ELSE [sku EXCEPT !.cv = EstimatedCv(sku.avg_ship_wk),
                             !.xyz_estimated = TRUE]
    IN  [rated EXCEPT !.xyz_class = ClassOfCv(rated.cv, rated.xyz_class)]

\* lines 464-510: the loop body of compute_xyz on one record
XyzOne(sku, monthly_all) ==
    LET monthly == MonthlyFor(sku.sku_code, monthly_all)
        rated ==
            IF Cardinality(DOMAIN monthly) >= MIN_MONTHS_FOR_XYZ
            THEN [sku EXCEPT !.cv = MeasuredCv(monthly),
                             !.monthly_qty_out = monthly]
            ELSE [sku EXCEPT !.cv = EstimatedCv(sku.avg_ship_wk),
                             !.xyz_estimated = TRUE]
    IN  [rated EXCEPT !.xyz_class = ClassOfCv(rated.cv, rated.xyz_class)]

compute_xyz(s, monthly_all) == [c \in DOMAIN s |-> XyzOne(s[c], monthly_all)]

-----------------------------------------------------------------------------
(* parse_depletion *)

\* A cell value: empty (None), a number, or text
NoCell == [t |-> "none", v |-> 0, s |-> EmptyText]
NumCell(v) == [t |-> "num", v |-> v, s |-> EmptyText]
TextCell(s) == [t |-> "text", v |-> 0, s |-> s]

\* A row of the depletion sheet: the columns the reader reads one by one
\* (0, 2, 3, 5, 9, 13, 16, 17) and cOther, one cell standing for the other
\* columns of the range 2..17
DepletionRow(c0, c2, c3, c5, c9, c13, c16, c17, cOther) ==
    [c0 |-> c0, c2 |-> c2, c3 |-> c3, c5 |-> c5, c9 |-> c9, c13 |-> c13,
     c16 |-> c16, c17 |-> c17, cOther |-> cOther]

TxtWarehouse == <<"W", "a", "r", "e", "h", "o", "u", "s", "e", ":">>
TxtSKU == <<"S", "K", "U">>
TxtTotal == <<"T", "o", "t", "a", "l">>
TxtGrand == <<"G", "r", "a", "n", "d">>
TxtItemActivity == <<"I", "t", "e", "m", " ", "A", "c", "t", "i", "v", "i", "t", "y">>
TxtItemActivityFrom == <<"I", "t", "e", "m", " ", "A", "c", "t", "i", "v", "i", "t", "y", " ", "F", "r", "o", "m">>

\* isinstance(x, (int, float))
IsNumber(cell) == cell.t = "num"

\* x if isinstance(x, (int, float)) else 0
NumberOr0(cell) == IF IsNumber(cell) THEN cell.v ELSE 0

\* int(x): truncation toward zero
IntOf(v) == IF v >= 0 THEN (v \div Scale) * Scale ELSE -(((-v) \div Scale) * Scale)

\* line 133: str(row[0] or '').strip(), the first cell being text or empty
Cell0(row) == IF row.c0.t = "text" THEN Strip(row.c0.s) ELSE EmptyText

\* line 149: any(isinstance(row[i], (int, float)) for i in range(2, 18))
AnyNumber(row) ==
    \E cell \in {row.c2, row.c3, row.c5, row.c9, row.c13, row.c16, row.c17,
                 row.cOther} : IsNumber(cell)

\* RowKind with the supplier test on "no number in column 2" in place of
\* "column 2 is empty"
RowKind_NumericOnly(row) ==
    LET cell0 == Cell0(row)
    IN  IF StartsWith(cell0, TxtWarehouse) THEN "warehouse"
        ELSE IF \/ cell0 = EmptyText
                \/ cell0 = TxtSKU
                \/ StartsWith(cell0, TxtTotal)
                \/ StartsWith(cell0, TxtGrand)
                \/ StartsWith(cell0, TxtItemActivity)
             THEN "skip"
        ELSE IF /\ ~IsNumber(row.c2)
                /\ \/ (row.c3.t = "text" /\ Contains(row.c3.s, TxtItemActivityFrom))
                   \/ ~AnyNumber(row)
             THEN "supplier"
        ELSE "sku"

\* lines 135-151: what the loop body takes the row for
RowKind(row) ==
    LET cell0 == Cell0(row)
    IN  IF StartsWith(cell0, TxtWarehouse) THEN "warehouse"
        ELSE IF \/ cell0 = EmptyText
                \/ cell0 = TxtSKU
                \/ StartsWith(cell0, TxtTotal)
                \/ StartsWith(cell0, TxtGrand)
                \/ StartsWith(cell0, TxtItemActivity)
             THEN "skip"
        ELSE IF /\ row.c2.t = "none"
                /\ \/ (row.c3.t = "text" /\ Contains(row.c3.s, TxtItemActivityFrom))
                   \/ ~AnyNumber(row)
             THEN "supplier"
        ELSE "sku"

\* MergeSighting with >= in place of > in the test of line 171
MergeSighting_OrEqual(existing, row, warehouse) ==
    LET avg_ship == NumberOr0(row.c16)
        summed == [existing EXCEPT
                     !.avg_ship_wk = @ + avg_ship,
                     !.beginning_inv = @ + NumberOr0(row.c2),
                     !.ending_inv = @ + NumberOr0(row.c13),
                     !.received = @ + NumberOr0(row.c5),
                     !.shipments = @ + NumberOr0(row.c9)]
    IN  IF avg_ship >= summed.avg_ship_wk - avg_ship
        THEN [summed EXCEPT !.wks_on_hand = NumberOr0(row.c17),
                            !.warehouse = warehouse]
        ELSE summed

\* MergeSighting with the test of line 171 made on the total as it was
\* before line 165 added the new value
MergeSighting_PreUpdate(existing, row, warehouse) ==
    LET avg_ship == NumberOr0(row.c16)
        summed == [existing EXCEPT
                     !.avg_ship_wk = @ + avg_ship,
                     !.beginning_inv = @ + NumberOr0(row.c2),
                     !.ending_inv = @ + NumberOr0(row.c13),
                     !.received = @ + NumberOr0(row.c5),
                     !.shipments = @ + NumberOr0(row.c9)]
    IN  IF avg_ship > existing.avg_ship_wk - avg_ship
        THEN [summed EXCEPT !.wks_on_hand = NumberOr0(row.c17),
                            !.warehouse = warehouse]
        ELSE summed

\* lines 163-173: a SKU code seen before
MergeSighting(existing, row, warehouse) ==
    LET avg_ship == NumberOr0(row.c16)
        summed == [existing EXCEPT
                     !.avg_ship_wk = @ + avg_ship,
                     !.beginning_inv = @ + NumberOr0(row.c2),
                     !.ending_inv = @ + NumberOr0(row.c13),
                     !.received = @ + NumberOr0(row.c5),
                     !.shipments = @ + NumberOr0(row.c9)]
    IN  IF avg_ship > summed.avg_ship_wk - avg_ship
        THEN [summed EXCEPT !.wks_on_hand = NumberOr0(row.c17),
                            !.warehouse = warehouse]
        ELSE summed

\* lines 174-184: a SKU code seen for the first time
FirstSighting(sku_code, row, supplier, warehouse) ==
    [SKUData(sku_code) EXCEPT
       !.supplier = supplier,
       !.warehouse = warehouse,
       !.avg_ship_wk = NumberOr0(row.c16),
       !.wks_on_hand = NumberOr0(row.c17),
       !.beginning_inv = IntOf(NumberOr0(row.c2)),
       !.ending_inv = IntOf(NumberOr0(row.c13)),
       !.received = IntOf(NumberOr0(row.c5)),
       !.shipments = IntOf(NumberOr0(row.c9))]

Reading == pc = "depletion" /\ Len(rowsRead) < MaxRows

\* One pass of the loop over ws.iter_rows, by the branch the row takes
ReadWarehouseRow(row) ==
    /\ Reading
    /\ RowKind(row) = "warehouse"
    /\ current_warehouse' = Strip(Remove(Cell0(row), TxtWarehouse))
    /\ rowsRead' = Append(rowsRead, row)
    /\ UNCHANGED <<pc, skus, skuOrder, view_items, monthly_data, abc_counts,
                   current_supplier, ActivityVars, MainVars, ViewItemVars>>

ReadSkippedRow(row) ==
    /\ Reading
    /\ RowKind(row) = "skip"
    /\ rowsRead' = Append(rowsRead, row)
    /\ UNCHANGED <<pc, skus, skuOrder, view_items, monthly_data, abc_counts,
                   current_warehouse, current_supplier, ActivityVars, MainVars, ViewItemVars>>

\* ReadSupplierRow clearing the warehouse context as well
ReadSupplierRow_ClearsWarehouse(row) ==
    /\ Reading
    /\ RowKind(row) = "supplier"
    /\ current_supplier' = resolve_supplier(Cell0(row))
    /\ current_warehouse' = EmptyText
    /\ rowsRead' = Append(rowsRead, row)
    /\ UNCHANGED <<pc, skus, skuOrder, view_items, monthly_data, abc_counts,
                   ActivityVars, MainVars, ViewItemVars>>

ReadSupplierRow(row) ==
    /\ Reading
    /\ RowKind(row) = "supplier"
    /\ current_supplier' = resolve_supplier(Cell0(row))
    /\ rowsRead' = Append(rowsRead, row)
    /\ UNCHANGED <<pc, skus, skuOrder, view_items, monthly_data, abc_counts,
                   current_warehouse, ActivityVars, MainVars, ViewItemVars>>

ReadSkuRow(row) ==
    /\ Reading
    /\ RowKind(row) = "sku"
    /\ LET sku_code == Cell0(row)
       IN  IF sku_code \in DOMAIN skus
           THEN /\ skus' = [skus EXCEPT ![sku_code] =
                               MergeSighting(skus[sku_code], row, current_warehouse)]
                /\ skuOrder' = skuOrder
           ELSE /\ skus' = [c \in DOMAIN skus \cup {sku_code} |->
                               IF c = sku_code
                               THEN FirstSighting(sku_code, row, current_supplier,
                                                  current_warehouse)
                               ELSE skus[c]]
                /\ skuOrder' = Append(skuOrder, sku_code)
    /\ rowsRead' = Append(rowsRead, row)
    /\ UNCHANGED <<pc, view_items, monthly_data, abc_counts,
                   current_warehouse, current_supplier, ActivityVars, MainVars, ViewItemVars>>

-----------------------------------------------------------------------------
(* main, steps 2-4: merge_master_data, compute_abc, compute_xyz in order *)

ReaderVars == <<current_warehouse, current_supplier, rowsRead>>

MergeMasterData ==
    /\ pc = "parsed"
    /\ skus' = merge_master_data(skus, view_items)
    /\ pc' = "merged"
    /\ stagesRun' = Append(stagesRun, "merge_master_data")
    /\ UNCHANGED <<skuOrder, view_items, monthly_data, abc_counts, ReaderVars,
                   ActivityVars, files, sql_written, ViewItemVars>>

ComputeAbc ==
    /\ pc = "merged"
    /\ LET r == compute_abc(skus, skuOrder, view_items, abc_counts)
       IN  /\ skus' = r.skus
           /\ abc_counts' = r.counts
    /\ pc' = "abc"
    /\ stagesRun' = Append(stagesRun, "compute_abc")
    /\ UNCHANGED <<skuOrder, view_items, monthly_data, ReaderVars,
                   ActivityVars, files, sql_written, ViewItemVars>>

\* line 842; with no record at all, the percentages printed at lines 512-514
\* divide by len(skus) = 0 and compute_xyz raises ZeroDivisionError
ComputeXyz ==
    /\ pc = "abc"
    /\ skus' = compute_xyz(skus, monthly_data)
    /\ pc' = IF DOMAIN skus = {} THEN "raised" ELSE "xyz"
    /\ stagesRun' = Append(stagesRun, "compute_xyz")
    /\ UNCHANGED <<skuOrder, view_items, monthly_data, abc_counts, ReaderVars,
                   ActivityVars, files, sql_written, ViewItemVars>>

Next == MergeMasterData \/ ComputeAbc \/ ComputeXyz

-----------------------------------------------------------------------------
(* parse_view_item *)

\* A row of an item master sheet: the columns the reader reads one by one
\* (0 code or label, 1 description, 2 dimensional UOM, 3 unit count,
\* 6 length, 7 width, 8 height, 9 cost, 10 weight)
ItemRow(c0, c1, c2, c3, c6, c7, c8, c9, c10) ==
    [c0 |-> c0, c1 |-> c1, c2 |-> c2, c3 |-> c3, c6 |-> c6, c7 |-> c7,
     c8 |-> c8, c9 |-> c9, c10 |-> c10]

TxtDimensionalUOM ==
    <<"D", "i", "m", "e", "n", "s", "i", "o", "n", "a", "l", " ", "U", "O", "M">>

\* line 216
skip_prefixes ==
    {<<"S", "K", "U">>,
     <<"D", "i", "m", "e", "n", "s", "i", "o", "n", "a", "l">>,
     <<"S", "t", "o", "r", "a", "g", "e">>,
     <<"T", "r", "a", "c", "k", " ", "B", "y">>,
     <<"V", "i", "e", "w", " ", "I", "t", "e", "m">>}

\* str(x or '') of a cell holding text or nothing
TextOf(cell) == IF cell.t = "text" THEN cell.s ELSE EmptyText

\* line 258: str(row[2] or '').strip() is non-empty; a number other than 0
\* prints as non-empty text
HasDimUom(cell) ==
    \/ cell.t = "text" /\ Strip(cell.s) # EmptyText
    \/ cell.t = "num" /\ cell.v # 0

\* lines 259, 261: dim_units is a number and is truthy
HasDimUnits(cell) == IsNumber(cell) /\ cell.v # 0

\* the reader's locals within a sheet, and the items collected so far
ItemState == [items |-> view_items, current_sku |-> current_sku,
              supplier_name |-> supplier_name,
              next_is_dimensions |-> next_is_dimensions]

\* lines 211-217: the locals at the top of a sheet (None is EmptyText)
SheetStart(st) ==
    [st EXCEPT !.current_sku = EmptyText,
               !.supplier_name = EmptyText,
               !.next_is_dimensions = FALSE]

\* ItemRowKind taking an empty-first-cell row for the dimensions row
\* whether or not the label row armed the flag
ItemRowKind_NoFlag(st, row) ==
    LET cell0 == Cell0(row)
    IN  IF \E p \in skip_prefixes : StartsWith(cell0, p) THEN "label"
        ELSE IF cell0 # EmptyText
             THEN IF IsNumber(row.c9) /\ row.c9.v > 0 THEN "sku" ELSE "section"
        ELSE IF st.current_sku # EmptyText /\ st.current_sku \in DOMAIN st.items
             THEN "dimensions"
        ELSE "other"

\* lines 220-255: the branch the loop body takes on the row
ItemRowKind(st, row) ==
    LET cell0 == Cell0(row)
    IN  IF \E p \in skip_prefixes : StartsWith(cell0, p) THEN "label"
        ELSE IF cell0 # EmptyText
             THEN IF IsNumber(row.c9) /\ row.c9.v > 0 THEN "sku" ELSE "section"
        ELSE IF st.current_sku # EmptyText /\ st.current_sku \in DOMAIN st.items
             THEN IF st.next_is_dimensions THEN "dimensions" ELSE "other"
        ELSE "other"

\* lines 238-247: the record a SKU row opens
OpenItem(row, supplier) ==
    [cost |-> row.c9.v,
     description |-> TextOf(row.c1),
     weight_lbs |-> 0,
     length_in |-> 0,
     width_in |-> 0,
     height_in |-> 0,
     dim_uom_units |-> Num(1),
     supplier |-> resolve_supplier(supplier)]

\* lines 258-272: the open record after the dimensions row
CaptureDimensions(item, row) ==
    IF HasDimUom(row.c2) /\ HasDimUnits(row.c3)
       /\ NumberOr0(row.c6) > 0 /\ item.length_in = 0
    THEN [item EXCEPT !.length_in = NumberOr0(row.c6),
                      !.width_in = NumberOr0(row.c7),
                      !.height_in = NumberOr0(row.c8),
                      !.weight_lbs = NumberOr0(row.c10),
                      !.dim_uom_units = row.c3.v]
    ELSE item

\* d[key] = value
DictSet(d, key, value) ==
    [k \in DOMAIN d \cup {key} |-> IF k = key THEN value ELSE d[k]]

\* lines 220-273: the loop body on one row
ItemStep(st, row) ==
    LET kind == ItemRowKind(st, row)
        cell0 == Cell0(row)
    IN  IF kind = "label"
        THEN [st EXCEPT !.next_is_dimensions = (cell0 = TxtDimensionalUOM)]
        ELSE IF kind = "sku"
        THEN [st EXCEPT !.next_is_dimensions = FALSE,
                        !.current_sku = cell0,
                        !.items = DictSet(@, cell0, OpenItem(row, st.supplier_name))]
        ELSE IF kind = "section"
        THEN [st EXCEPT !.next_is_dimensions = FALSE,
                        !.supplier_name = cell0]
        ELSE IF kind = "dimensions"
        THEN [st EXCEPT !.next_is_dimensions = FALSE,
                        !.items = DictSet(@, st.current_sku,
                                          CaptureDimensions(@[st.current_sku], row))]
        ELSE st

TxtStorageUOM == <<"S", "t", "o", "r", "a", "g", "e", " ", "U", "O", "M">>
TxtEach == <<"E", "a", "c", "h">>
TxtBracket == <<"B", "r", "a", "c", "k", "e", "t">>

\* a SKU row of the code with the cost in column 9
ItemSkuRow(code, cost) ==
    ItemRow(TextCell(code), TextCell(TxtBracket), NoCell, NoCell, NoCell,
            NoCell, NoCell, NumCell(cost), NoCell)

\* a row with only its first cell filled
ItemTextRow(text) ==
    ItemRow(TextCell(text), NoCell, NoCell, NoCell, NoCell, NoCell, NoCell,
            NoCell, NoCell)

\* a row with an empty first cell
ItemDimRow(uom, units, length, width, height, weight) ==
    ItemRow(NoCell, NoCell, uom, units, length, width, height, NoCell, weight)

BlankItemRow ==
    ItemRow(NoCell, NoCell, NoCell, NoCell, NoCell, NoCell, NoCell, NoCell, NoCell)
NothingRead == [kind |-> "none", row |-> BlankItemRow]
SheetOpened == [kind |-> "sheet", row |-> BlankItemRow]
ItemRowRead(row) == [kind |-> "row", row |-> row]

\* lines 210-217: the next sheet of the workbook is opened
OpenSheet ==
    /\ pc = "view_item"
    /\ LET st == SheetStart(ItemState)
       IN  /\ current_sku' = st.current_sku
           /\ supplier_name' = st.supplier_name
           /\ next_is_dimensions' = st.next_is_dimensions
    /\ itemRead' = SheetOpened
    /\ UNCHANGED <<pc, skus, skuOrder, view_items, monthly_data, abc_counts,
                   ReaderVars, activity_counts, activityRead, MainVars>>

\* lines 219-273: the loop body on the row
ReadItemRow(row) ==
    /\ pc = "view_item"
    /\ itemRead.kind # "none"
    /\ LET st == ItemStep(ItemState, row)
       IN  /\ view_items' = st.items
           /\ current_sku' = st.current_sku
           /\ supplier_name' = st.supplier_name
           /\ next_is_dimensions' = st.next_is_dimensions
    /\ itemRead' = ItemRowRead(row)
    /\ UNCHANGED <<pc, skus, skuOrder, monthly_data, abc_counts,
                   ReaderVars, activity_counts, activityRead, MainVars>>

\* the loop body by the branch the row takes
ReadLabelRow(row) ==
    /\ ItemRowKind(ItemState, row) = "label"
    /\ ReadItemRow(row)

ReadItemSkuRow(row) ==
    /\ ItemRowKind(ItemState, row) = "sku"
    /\ ReadItemRow(row)

ReadSectionRow(row) ==
    /\ ItemRowKind(ItemState, row) = "section"
    /\ ReadItemRow(row)

ReadDimensionsRow(row) ==
    /\ ItemRowKind(ItemState, row) = "dimensions"
    /\ ReadItemRow(row)

ReadOtherItemRow(row) ==
    /\ ItemRowKind(ItemState, row) = "other"
    /\ ReadItemRow(row)

RECURSIVE SheetFold(_, _, _)
SheetFold(st, rows, i) ==
    IF i > Len(rows) THEN st ELSE SheetFold(ItemStep(st, rows[i]), rows, i + 1)

RECURSIVE WorkbookFold(_, _, _)
WorkbookFold(st, sheets, i) ==
    IF i > Len(sheets) THEN st
    ELSE WorkbookFold(SheetFold(SheetStart(st), sheets[i], 1), sheets, i + 1)

\* lines 201-284: parse_view_item on the sheets of the workbook
parse_view_item(sheets) ==
    WorkbookFold([items |-> EmptyDict, current_sku |-> EmptyText,
                  supplier_name |-> EmptyText, next_is_dimensions |-> FALSE],
                 sheets, 1).items

-----------------------------------------------------------------------------
(* Inputs of the classification stages: what the three readers hand over *)

NoCounts == [a |-> 0, b |-> 0, c |-> 0]

\* lines 302-304: the counters of parse_activity_reports at its start
NoActivityCounts ==
    [total_transactions |-> 0, filtered_adjustments |-> 0, filtered_moves |-> 0]

\* lines 44-46: the depletion file, the item master file and the six
\* activity report files
ACTIVITY_FILES == 1..6
AllFiles == [depletion |-> TRUE, view_item |-> TRUE, activity |-> ACTIVITY_FILES,
             sheet |-> << >>, workbook |-> << >>]

\* lines 830-833: the three readers, in the order main calls them
ReaderStages == <<"parse_depletion", "parse_view_item", "parse_activity_reports">>

\* a record as parse_depletion leaves it
ParsedSku(sku_code, avg_ship) == [SKUData(sku_code) EXCEPT !.avg_ship_wk = avg_ship]

SeqRange(q) == {q[i] : i \in DOMAIN q}

\* month keys 2024-01, 2024-02, ...
MonthKey(i) == (2024 + (i - 1) \div 12) * 100 + ((i - 1) % 12) + 1
MonthKeys(n) == {MonthKey(i) : i \in 1..n}

\* a histogram holding the given quantities, one per month
HistogramOf(q) == [k \in MonthKeys(Len(q)) |-> q[CHOOSE i \in 1..Len(q) : MonthKey(i) = k]]

QtyValues == {1, 2, 3, 6}

\* mean and stdev depend on the values only as a multiset: one histogram per
\* multiset, of 1 to MaxMonths months
Histograms ==
    UNION {{HistogramOf(q) : q \in {f \in [1..n -> QtyValues] :
                                      \A i \in 1..(n - 1) : f[i] <= f[i + 1]}}
           : n \in 1..MaxMonths}

SkuLetters == <<"A", "B", "C", "D", "E">>
CodeAt(i) == <<SkuLetters[i]>>

AbcShips == {-1, 0, Num(1), Num(4), Num(20)}
AbcCosts == {Num(1), Num(5)}

\* 1 to MaxSkus records, each with a velocity and with or without a cost
InitAbc ==
    \E n \in 1..MaxSkus :
      \E ships \in [1..n -> AbcShips], costs \in [1..n -> AbcCosts \cup {0}] :
        /\ skuOrder = [i \in 1..n |-> CodeAt(i)]
        /\ skus = [c \in {CodeAt(i) : i \in 1..n} |->
                     ParsedSku(c, ships[CHOOSE i \in 1..n : CodeAt(i) = c])]
        /\ view_items = [c \in {CodeAt(i) : i \in {j \in 1..n : costs[j] # 0}} |->
                           ViewItem(costs[CHOOSE i \in 1..n : CodeAt(i) = c], EmptyText)]
        /\ monthly_data = EmptyDict

XyzShips == {-1, 0, 1, Num(1), Num(4), Num(10), Num(15)}

\* one record with any velocity and any histogram or none, beside none or
\* one of two fixed records
InitXyz ==
    \E ship \in XyzShips, h \in Histograms \cup {EmptyDict}, other \in 0..2 :
        /\ skuOrder = IF other = 0 THEN <<CodeAt(1)>> ELSE <<CodeAt(1), CodeAt(2)>>
        /\ skus = [c \in SeqRange(skuOrder) |->
                     IF c = CodeAt(1) THEN ParsedSku(c, ship)
                     ELSE ParsedSku(c, Num(15))]
        /\ view_items = [c \in {CodeAt(1)} |-> ViewItem(Num(5), EmptyText)]
        /\ monthly_data =
             [c \in (IF h = EmptyDict THEN {} ELSE {CodeAt(1)})
                    \cup (IF other = 2 THEN {CodeAt(2)} ELSE {}) |->
                IF c = CodeAt(1) THEN h ELSE HistogramOf(<<1, 1, 1, 1, 2, 6>>)]

\* codes that differ by trailing G and T characters
KeyCodes == << <<"A">>, <<"A", "G", "T">>, <<"A", "T">>, <<"A", "T", "G", "T">> >>
KeyIndex(c) == CHOOSE i \in 1..Len(KeyCodes) : KeyCodes[i] = c

\* one record; the item master and the activity histograms keyed by any
\* codes, each entry telling its own key (cost i, six months of quantity i)
InitKeys ==
    \E q \in SeqRange(KeyCodes), ik \in SUBSET SeqRange(KeyCodes),
       hk \in SUBSET SeqRange(KeyCodes) :
        /\ skuOrder = <<q>>
        /\ skus = [c \in {q} |-> ParsedSku(c, Num(4))]
        /\ view_items = [c \in ik |-> ViewItem(Num(KeyIndex(c)), EmptyText)]
        /\ monthly_data = [c \in hk |->
                             HistogramOf([i \in 1..MIN_MONTHS_FOR_XYZ |-> KeyIndex(c)])]

\* one record of velocity 20, an item of cost 5 and six months of activity,
\* the item and the histogram keyed by the record's code or by its other form
EndToEndQuantities == <<Num(100), Num(110), Num(95), Num(105), Num(90), Num(120)>>
EndToEndCodes == {<<"A">>, <<"A", "G", "T">>}
InitEndToEnd ==
    \E q \in EndToEndCodes, ik \in EndToEndCodes, hk \in EndToEndCodes :
        /\ skuOrder = <<q>>
        /\ skus = [c \in {q} |-> ParsedSku(c, Num(20))]
        /\ view_items = [c \in {ik} |-> ViewItem(Num(5), EmptyText)]
        /\ monthly_data = [c \in {hk} |-> HistogramOf(EndToEndQuantities)]

Init ==
    /\ pc = "parsed"
    /\ abc_counts = NoCounts
    /\ current_warehouse = EmptyText
    /\ current_supplier = EmptyText
    /\ rowsRead = << >>
    /\ current_sku = EmptyText
    /\ activity_counts = NoActivityCounts
    /\ activityRead = << >>
    /\ files = AllFiles
    /\ stagesRun = ReaderStages
    /\ sql_written = FALSE
    /\ supplier_name = EmptyText
    /\ next_is_dimensions = FALSE
    /\ itemRead = NothingRead
    /\ (InitAbc \/ InitXyz \/ InitKeys \/ InitEndToEnd)

Spec == Init /\ [][Next]_vars

-----------------------------------------------------------------------------
(* Properties of compute_abc *)

AfterAbc == pc \in {"abc", "xyz"}
AfterXyz == pc = "xyz"

ValueOf(c) == skus[c].annual_value
TotalValue == SumOver([c \in DOMAIN skus |-> ValueOf(c)], DOMAIN skus)

\* the descending-value order, input order breaking ties
IndexOf(c) == CHOOSE i \in 1..Len(skuOrder) : skuOrder[i] = c
Precedes(x, y) ==
    \/ ValueOf(x) > ValueOf(y)
    \/ ValueOf(x) = ValueOf(y) /\ IndexOf(x) < IndexOf(y)
TopSku == CHOOSE c \in DOMAIN skus : \A d \in DOMAIN skus \ {c} : Precedes(c, d)

ClassA == {c \in DOMAIN skus : skus[c].abc_class = "A"}
ClassRank(cls) == CASE cls = "A" -> 1 [] cls = "B" -> 2 [] cls = "C" -> 3 [] OTHER -> 0

\* C1: after compute_abc on a record set of positive total value, every
\* record's abc_class is one of A, B, C.
AbcEveryRecordClassed ==
    (AfterAbc /\ TotalValue > 0) =>
        \A c \in DOMAIN skus : skus[c].abc_class \in {"A", "B", "C"}

\* three records of positive total value, classed A, B and C
AbcEveryRecordClassed_Witness ==
    /\ pc = "abc"
    /\ TotalValue > 0
    /\ Len(skuOrder) = 3
    /\ {skus[c].abc_class : c \in DOMAIN skus} = {"A", "B", "C"}

\* C2: when the total value is positive, compute_abc leaves at least one
\* class-A record and the highest-value record is class A, also when its
\* share alone is above the A threshold.
AbcTopIsA ==
    (AfterAbc /\ TotalValue > 0) =>
        /\ ClassA # {}
        /\ skus[TopSku].abc_class = "A"

\* the top record alone holds more than 96% of the total and is class A
AbcTopIsA_Witness ==
    /\ pc = "abc"
    /\ TotalValue > 0
    /\ Len(skuOrder) >= 2
    /\ ValueOf(TopSku) * 100 > ABC_B_THRESHOLD * TotalValue
    /\ skus[TopSku].abc_class = "A"

\* C3: the class-A records together hold at most 80% of the total value,
\* unless class A is exactly the one record forced to A.
AbcClassAShare ==
    (AfterAbc /\ TotalValue > 0) =>
        \/ SumOver([c \in DOMAIN skus |-> ValueOf(c)], ClassA) * 100
              <= ABC_A_THRESHOLD * TotalValue
        \/ /\ ClassA = {TopSku}
           /\ ValueOf(TopSku) * 100 > ABC_A_THRESHOLD * TotalValue

\* class A holds exactly 80% of the total, and a class-B record follows
AbcClassAShare_Witness ==
    /\ pc = "abc"
    /\ TotalValue > 0
    /\ \E c \in DOMAIN skus : skus[c].abc_class = "B"
    /\ SumOver([c \in DOMAIN skus |-> ValueOf(c)], ClassA) * 100
          = ABC_A_THRESHOLD * TotalValue

\* C4: classes are monotone along the descending-value order: a record
\* that precedes another never has a lower class.
AbcMonotone ==
    (AfterAbc /\ TotalValue > 0) =>
        \A x, y \in DOMAIN skus :
            Precedes(x, y) => ClassRank(skus[x].abc_class) <= ClassRank(skus[y].abc_class)

\* two records of equal value on either side of a class boundary
AbcMonotone_Witness ==
    /\ pc = "abc"
    /\ TotalValue > 0
    /\ \E x, y \in DOMAIN skus :
         /\ x # y
         /\ ValueOf(x) = ValueOf(y)
         /\ skus[x].abc_class = "A"
         /\ skus[y].abc_class = "C"

\* C5: when the total value is zero or negative, compute_abc classes every
\* record C; none is A or B.
AbcDegenerateAllC ==
    (AfterAbc /\ TotalValue <= 0) =>
        \A c \in DOMAIN skus : skus[c].abc_class = "C"

\* a negative total although one record has a positive value
AbcDegenerateAllC_Witness ==
    /\ pc = "abc"
    /\ TotalValue < 0
    /\ \E c \in DOMAIN skus : ValueOf(c) > 0
    /\ \A c \in DOMAIN skus : skus[c].abc_class = "C"

-----------------------------------------------------------------------------
(* Properties of compute_xyz *)

\* cv < n/d, cv >= 0 held as cv^2 = num/den
CvLess(cv, n, d) == cv.kind = "fin" /\ cv.num * d * d < n * n * cv.den
CvIs(cv, n, d) == cv.kind = "fin" /\ cv.num * d * d = n * n * cv.den

Months(c) == Cardinality(DOMAIN MonthlyFor(c, monthly_data))

\* C6: xyz_class follows from cv by one rule, measured or estimated:
\* X iff cv < 0.5, Y iff 0.5 <= cv < 1.0, Z iff cv >= 1.0 or infinite;
\* cv exactly 0.5 is Y and cv exactly 1.0 is Z.
XyzClassFollowsCv ==
    AfterXyz =>
        \A c \in DOMAIN skus :
            LET cv == skus[c].cv
                cls == skus[c].xyz_class
            IN  /\ cls = "X" <=> CvLess(cv, 1, 2)
                /\ cls = "Y" <=> (cv.kind = "fin" /\ ~CvLess(cv, 1, 2) /\ CvLess(cv, 1, 1))
                /\ cls = "Z" <=> (cv.kind = "inf" \/ (cv.kind = "fin" /\ ~CvLess(cv, 1, 1)))
                /\ CvIs(cv, 1, 2) => cls = "Y"
                /\ CvIs(cv, 1, 1) => cls = "Z"

\* a measured cv of exactly 0.5 classed Y beside a measured cv of exactly
\* 1.0 classed Z
XyzClassFollowsCv_Witness ==
    /\ AfterXyz
    /\ \E x, y \in DOMAIN skus :
         /\ ~skus[x].xyz_estimated /\ CvIs(skus[x].cv, 1, 2) /\ skus[x].xyz_class = "Y"
         /\ ~skus[y].xyz_estimated /\ CvIs(skus[y].cv, 1, 1) /\ skus[y].xyz_class = "Z"

\* C7 as stated: with fewer than 6 months, a velocity of at least 10 gives
\* cv 0.6, class X, estimated; a velocity of 0 gives infinity, class Z,
\* estimated.
XyzEstimateFastIsX ==
    AfterXyz =>
        \A c \in DOMAIN skus :
            /\ (Months(c) < 6 /\ skus[c].avg_ship_wk >= Num(10)) =>
                  /\ skus[c].cv = CvFinite(36, 100)
                  /\ skus[c].xyz_class = "X"
                  /\ skus[c].xyz_estimated
            /\ (Months(c) < 6 /\ skus[c].avg_ship_wk = 0) =>
                  /\ skus[c].cv.kind = "inf"
                  /\ skus[c].xyz_class = "Z"
                  /\ skus[c].xyz_estimated

\* C7 amended: with fewer than 6 months, a velocity of at least 10 gives
\* cv 0.6, class Y, estimated; a velocity of 0 gives infinity, class Z,
\* estimated.
XyzEstimateFastIsY ==
    AfterXyz =>
        \A c \in DOMAIN skus :
            /\ (Months(c) < 6 /\ skus[c].avg_ship_wk >= Num(10)) =>
                  /\ skus[c].cv = CvFinite(36, 100)
                  /\ skus[c].xyz_class = "Y"
                  /\ skus[c].xyz_estimated
            /\ (Months(c) < 6 /\ skus[c].avg_ship_wk = 0) =>
                  /\ skus[c].cv.kind = "inf"
                  /\ skus[c].xyz_class = "Z"
                  /\ skus[c].xyz_estimated

\* exactly 5 months of history and a velocity of 15
XyzEstimateFastIsY_Witness ==
    /\ AfterXyz
    /\ \E c \in DOMAIN skus :
         /\ Months(c) = 5
         /\ skus[c].avg_ship_wk = Num(15)
         /\ skus[c].cv = CvFinite(36, 100)
         /\ skus[c].xyz_class = "Y"
         /\ skus[c].xyz_estimated

-----------------------------------------------------------------------------
(* Properties of the key lookups *)

HasSuffixGT(c) == Len(c) >= 2 /\ SubSeq(c, Len(c) - 1, Len(c)) = <<"G", "T">>
\* the code with the two-character suffix GT removed from its end
StripSuffixGT(c) == IF HasSuffixGT(c) THEN SubSeq(c, 1, Len(c) - 2) ELSE c

AfterMerge == pc \in {"merged", "abc", "xyz"}

\* the three forms of a code, in the order they are to be tried
KeyForms(c) == <<c, StripSuffixGT(c), PlusGT(c)>>
FormsPresent(c, d) == {i \in 1..3 : KeyForms(c)[i] \in DOMAIN d}
FirstForm(c, d) ==
    KeyForms(c)[CHOOSE i \in FormsPresent(c, d) : \A j \in FormsPresent(c, d) : i <= j]

\* C8: key resolution is symmetric in the suffix GT, for the cost lookup,
\* the master-data merge and the histogram lookup: an entry stored only as
\* code+GT is found for code, an entry stored only as code is found for
\* code+GT, and a code none of whose three forms is stored finds nothing.
KeyResolutionSymmetric ==
    \A c \in DOMAIN skus :
        /\ (AfterMerge /\ DOMAIN view_items = {PlusGT(c)}) =>
              skus[c].unit_cost = view_items[PlusGT(c)].cost
        /\ (AfterMerge /\ HasSuffixGT(c) /\ DOMAIN view_items = {StripSuffixGT(c)}) =>
              skus[c].unit_cost = view_items[StripSuffixGT(c)].cost
        /\ (AfterMerge /\ FormsPresent(c, view_items) = {}) =>
              skus[c].unit_cost = 0
        /\ (AfterXyz /\ DOMAIN monthly_data = {PlusGT(c)}) =>
              skus[c].monthly_qty_out = monthly_data[PlusGT(c)]
        /\ (AfterXyz /\ HasSuffixGT(c) /\ DOMAIN monthly_data = {StripSuffixGT(c)}) =>
              skus[c].monthly_qty_out = monthly_data[StripSuffixGT(c)]
        /\ (AfterXyz /\ FormsPresent(c, monthly_data) = {}) =>
              skus[c].monthly_qty_out = EmptyDict

\* C9: the lookup returns the entry stored under the first present of
\* exactly three keys, the code, the code without its suffix GT, the code
\* plus GT, in that order, and never an entry stored under another key.
KeyResolutionFirstOfThree ==
    \A c \in DOMAIN skus :
        /\ AfterMerge =>
              skus[c].unit_cost =
                  IF FormsPresent(c, view_items) = {} THEN 0
                  ELSE view_items[FirstForm(c, view_items)].cost
        /\ AfterXyz =>
              LET found == IF FormsPresent(c, monthly_data) = {} THEN EmptyDict
                           ELSE monthly_data[FirstForm(c, monthly_data)]
              IN  Cardinality(DOMAIN found) >= MIN_MONTHS_FOR_XYZ =>
                      skus[c].monthly_qty_out = found

-----------------------------------------------------------------------------
(* The depletion reader over any rows *)

TxtKent == <<"W", "a", "r", "e", "h", "o", "u", "s", "e", ":", " ", "K", "e", "n", "t">>
TxtReno == <<"W", "a", "r", "e", "h", "o", "u", "s", "e", ":", " ", "R", "e", "n", "o">>
TxtTotals == <<"T", "o", "t", "a", "l", " ", "A", "M", "C">>
TxtAmc == <<" ", "A", "m", "c", " ", "M", "e", "t", "a", "l", " ">>
TxtAcme == <<"A", "c", "m", "e">>
TxtNuode == <<"C", "h", "a", "n", "g", "z", "h", "o", "u", " ", "N", "u", "o", "d", "e">>
TxtFrom == <<"I", "t", "e", "m", " ", "A", "c", "t", "i", "v", "i", "t", "y", " ", "F", "r", "o", "m", " ", "1", "/", "1">>
TxtNA == <<"n", "/", "a">>
TxtTwoAliases == <<"N", "u", "o", "d", "e", " ", "/", " ", "A", "M", "C">>
SkuX == <<"X", "1", "0", "0">>
SkuZ == <<"Z", "3", "0", "0">>
SkuY == <<"Y", "2", "0", "0", "G", "T">>

\* section markers, headers and totals, supplier lines, and SKU rows that
\* repeat a code, hold fractions, text or nothing in the numeric columns
DepletionRows ==
    {DepletionRow(TextCell(TxtKent), NoCell, NoCell, NoCell, NoCell, NoCell, NoCell, NoCell, NoCell),
     DepletionRow(TextCell(TxtReno), NoCell, NoCell, NoCell, NoCell, NoCell, NoCell, NoCell, NoCell),
     DepletionRow(TextCell(TxtSKU), TextCell(TxtTotal), NoCell, NoCell, NoCell, NoCell, NoCell, NoCell, NoCell),
     DepletionRow(TextCell(TxtTotals), NumCell(Num(6)), NoCell, NumCell(Num(3)), NumCell(Num(10)),
                  NumCell(Num(4)), NumCell(Num(10)), NumCell(Num(7)), NoCell),
     DepletionRow(NoCell, NumCell(Num(1)), NoCell, NoCell, NoCell, NoCell, NumCell(Num(1)), NoCell, NoCell),
     DepletionRow(TextCell(TxtAmc), NoCell, NoCell, NoCell, NoCell, NoCell, NoCell, NoCell, NoCell),
     DepletionRow(TextCell(TxtAcme), NoCell, TextCell(TxtNA), NoCell, NoCell, NoCell, NoCell, NoCell, NoCell),
     DepletionRow(TextCell(TxtNuode), NoCell, TextCell(TxtFrom), NoCell, NumCell(Num(5)), NoCell, NoCell, NoCell, NoCell),
     DepletionRow(TextCell(TxtTwoAliases), NoCell, NoCell, NoCell, NoCell, NoCell, NoCell, NoCell, NoCell),
     DepletionRow(TextCell(SkuZ), TextCell(TxtNA), NoCell, NoCell, NoCell, NoCell, NoCell, NoCell, NoCell),
     DepletionRow(TextCell(SkuX), NumCell(Num(2) + 1), NoCell, NumCell(Num(1)), NumCell(Num(3)),
                  NumCell(Num(1)), NumCell(Num(3)), NumCell(Num(5)), NoCell),
     DepletionRow(TextCell(SkuX), NumCell(Num(4)), NoCell, NumCell(Num(2)), NumCell(Num(7)),
                  NumCell(Num(3)), NumCell(Num(7)), NumCell(Num(2)), NumCell(Num(1))),
     DepletionRow(TextCell(SkuX), NoCell, NoCell, NoCell, NumCell(Num(1)), NoCell, TextCell(TxtNA), NoCell, NoCell),
     DepletionRow(TextCell(SkuY), TextCell(TxtNA), NoCell, NumCell(Num(2)), NoCell,
                  NumCell(Num(2)), NumCell(1), NumCell(Num(9)), NoCell),
     DepletionRow(TextCell(SkuY), NumCell(Num(3)), NoCell, NoCell, NumCell(Num(1)),
                  NumCell(Num(2)), NumCell(Num(1)), NumCell(Num(4)), NoCell)}

InitDepletion ==
    /\ pc = "depletion"
    /\ skus = EmptyDict
    /\ skuOrder = << >>
    /\ current_warehouse = EmptyText
    /\ current_supplier = EmptyText
    /\ rowsRead = << >>
    /\ view_items = EmptyDict
    /\ monthly_data = EmptyDict
    /\ abc_counts = NoCounts
    /\ current_sku = EmptyText
    /\ activity_counts = NoActivityCounts
    /\ activityRead = << >>
    /\ files = AllFiles
    /\ stagesRun = <<"parse_depletion">>
    /\ sql_written = FALSE
    /\ supplier_name = EmptyText
    /\ next_is_dimensions = FALSE
    /\ itemRead = NothingRead

NextDepletion ==
    \E row \in DepletionRows :
        \/ ReadWarehouseRow(row)
        \/ ReadSkippedRow(row)
        \/ ReadSupplierRow(row)
        \/ ReadSkuRow(row)

SpecDepletion == InitDepletion /\ [][NextDepletion]_vars

\* the SKU data rows read so far that carry the code
SightingsOf(c) == {i \in 1..Len(rowsRead) :
                      RowKind(rowsRead[i]) = "sku" /\ Cell0(rowsRead[i]) = c}

RECURSIVE SumCells(_, _)
SumCells(cellAt, S) ==
    IF S = {} THEN 0
    ELSE LET i == CHOOSE i \in S : TRUE
         IN  NumberOr0(cellAt[i]) + SumCells(cellAt, S \ {i})

Column(name) == [i \in 1..Len(rowsRead) |-> rowsRead[i][name]]

\* C10: after any rows there is exactly one record per SKU code seen in a
\* SKU data row, and its avg_weekly_shipments, beginning_inventory,
\* ending_inventory, received and shipped are the sums of the cells of the
\* SKU data rows with that code, a cell that is no number counting as 0.
DepletionAdditive ==
    /\ DOMAIN skus = {Cell0(rowsRead[i]) : i \in {j \in 1..Len(rowsRead) :
                                                   RowKind(rowsRead[j]) = "sku"}}
    /\ SeqRange(skuOrder) = DOMAIN skus
    /\ Len(skuOrder) = Cardinality(DOMAIN skus)
    /\ \A c \in DOMAIN skus :
         /\ skus[c].sku_code = c
         /\ skus[c].avg_ship_wk = SumCells(Column("c16"), SightingsOf(c))
         /\ skus[c].beginning_inv = SumCells(Column("c2"), SightingsOf(c))
         /\ skus[c].ending_inv = SumCells(Column("c13"), SightingsOf(c))
         /\ skus[c].received = SumCells(Column("c5"), SightingsOf(c))
         /\ skus[c].shipments = SumCells(Column("c9"), SightingsOf(c))

-----------------------------------------------------------------------------
(* The merge of a repeated SKU code: weeks_on_hand and warehouse *)

\* the row a step of the reader has just read
NewRow == rowsRead'[Len(rowsRead')]

\* a step that reads a SKU data row whose code c already has a record
MergeStep(c) ==
    /\ Len(rowsRead') = Len(rowsRead) + 1
    /\ c \in DOMAIN skus
    /\ RowKind(NewRow) = "sku"
    /\ Cell0(NewRow) = c

\* weeks_on_hand and warehouse of c are taken from the new row
TakenFromNewRow(c) ==
    /\ skus'[c].wks_on_hand = NumberOr0(NewRow.c17)
    /\ skus'[c].warehouse = current_warehouse

\* weeks_on_hand and warehouse of c are left as they were
LeftUnchanged(c) ==
    /\ skus'[c].wks_on_hand = skus[c].wks_on_hand
    /\ skus'[c].warehouse = skus[c].warehouse

\* C11, as stated: on a SKU code that already has a record the reader
\* overwrites weeks_on_hand and warehouse with the new row's values if and
\* only if the new row's weekly-shipment value is greater than the total
\* accumulated before the row minus the new value; otherwise both are left
\* unchanged.
MergeOverwriteBeforeMinusNew ==
    [][\A c \in DOMAIN skus :
          MergeStep(c) =>
              IF NumberOr0(NewRow.c16) > skus[c].avg_ship_wk - NumberOr0(NewRow.c16)
              THEN TakenFromNewRow(c)
              ELSE LeftUnchanged(c)]_vars

\* C11, amended: on a SKU code that already has a record the reader
\* overwrites weeks_on_hand and warehouse with the new row's values if and
\* only if the new row's weekly-shipment value is greater than the total
\* accumulated after the row was added minus the new value, that is, greater
\* than the total accumulated before it; otherwise both are left unchanged.
MergeOverwriteAfterMinusNew ==
    [][\A c \in DOMAIN skus :
          MergeStep(c) =>
              IF NumberOr0(NewRow.c16) > skus'[c].avg_ship_wk - NumberOr0(NewRow.c16)
              THEN TakenFromNewRow(c)
              ELSE LeftUnchanged(c)]_vars

\* two sightings of a code, the second larger than the first: the record
\* holds the second row's weeks_on_hand, which differs from the first row's
MergeOverwriteAfterMinusNew_Witness ==
    /\ Len(rowsRead) = 2
    /\ \E c \in DOMAIN skus :
         /\ SightingsOf(c) = {1, 2}
         /\ NumberOr0(rowsRead[2].c16) > NumberOr0(rowsRead[1].c16)
         /\ NumberOr0(rowsRead[2].c17) # NumberOr0(rowsRead[1].c17)
         /\ skus[c].wks_on_hand = NumberOr0(rowsRead[2].c17)

\* C12: weeks_on_hand and warehouse are taken from the new sighting exactly
\* when its weekly-shipment value is more than half of the total accumulated
\* after the merge: of sightings 3 then 7 the second row's values are kept,
\* of two equal sightings the first row's.
MergeOverwriteMoreThanHalf ==
    [][\A c \in DOMAIN skus :
          MergeStep(c) =>
              IF 2 * NumberOr0(NewRow.c16) > skus'[c].avg_ship_wk
              THEN TakenFromNewRow(c)
              ELSE LeftUnchanged(c)]_vars

\* two equal sightings of a code with a warehouse marker between them: the
\* record keeps the first row's warehouse, not the current one
MergeOverwriteMoreThanHalf_Witness ==
    /\ Len(rowsRead) = 3
    /\ \E c \in DOMAIN skus :
         /\ SightingsOf(c) = {1, 3}
         /\ RowKind(rowsRead[2]) = "warehouse"
         /\ NumberOr0(rowsRead[1].c16) > 0
         /\ NumberOr0(rowsRead[3].c16) = NumberOr0(rowsRead[1].c16)
         /\ skus[c].warehouse = EmptyText
         /\ current_warehouse # EmptyText

-----------------------------------------------------------------------------
(* parse_activity_reports *)

\* A cell holding a datetime
DateCell(y, m, d) == [t |-> "date", v |-> y * 10000 + m * 100 + d, s |-> EmptyText]

\* A row of an activity report: the columns the reader reads (1, 4, 5, 7, 10)
ActivityRow(c1, c4, c5, c7, c10) ==
    [c1 |-> c1, c4 |-> c4, c5 |-> c5, c7 |-> c7, c10 |-> c10]

TxtTotalsColon == <<"T", "o", "t", "a", "l", "s", ":">>
TxtActivityDate == <<"A", "c", "t", "i", "v", "i", "t", "y", " ", "D", "a", "t", "e">>
TxtBeginningBalance == <<"B", "e", "g", "i", "n", "n", "i", "n", "g", " ", "B", "a", "l", "a", "n", "c", "e">>
TxtEndingBalance == <<"E", "n", "d", "i", "n", "g", " ", "B", "a", "l", "a", "n", "c", "e">>
TxtAdjust == <<"a", "d", "j", "u", "s", "t">>
TxtAdj == <<"a", "d", "j">>
TxtMv == <<"m", "v">>

\* str(x or '').strip() of a cell that is text or empty
CellText(cell) == IF cell.t = "text" THEN Strip(cell.s) ELSE EmptyText

Digits == <<"0", "1", "2", "3", "4", "5", "6", "7", "8", "9">>
IsDigit(ch) == \E i \in 1..Len(Digits) : Digits[i] = ch
DigitVal(ch) == (CHOOSE i \in 1..Len(Digits) : Digits[i] = ch) - 1
AllDigits(tok) == \A i \in 1..Len(tok) : IsDigit(tok[i])

RECURSIVE NumberOf(_)
NumberOf(tok) ==
    IF tok = << >> THEN 0
    ELSE NumberOf(SubSeq(tok, 1, Len(tok) - 1)) * 10 + DigitVal(tok[Len(tok)])

\* the pieces of s between the separators
RECURSIVE Split(_, _)
Split(s, sep) ==
    IF \A i \in 1..Len(s) : s[i] # sep THEN <<s>>
    ELSE LET i == CHOOSE i \in 1..Len(s) :
                      s[i] = sep /\ \A j \in 1..(i - 1) : s[j] # sep
         IN  <<SubSeq(s, 1, i - 1)>> \o Split(SubSeq(s, i + 1, Len(s)), sep)

IsLeap(y) == (y % 4 = 0 /\ y % 100 # 0) \/ y % 400 = 0
DaysIn(y, m) ==
    IF m = 2 THEN (IF IsLeap(y) THEN 29 ELSE 28)
    ELSE IF m \in {4, 6, 9, 11} THEN 30 ELSE 31

NoDate == [ok |-> FALSE, year |-> 0, month |-> 0]

\* line 346: datetime.strptime(s, "%m/%d/%Y"); %m is one or two digits
\* making 1..12, %d one or two digits (or a space and a digit) making a day
\* of that month, %Y four digits making a year from 1 on; anything else
\* raises ValueError
strptime(s) ==
    LET tok == Split(s, "/")
    IN  IF Len(tok) # 3 THEN NoDate
        ELSE LET mt == tok[1]
                 dt == IF Len(tok[2]) = 2 /\ tok[2][1] = " " THEN Tail(tok[2]) ELSE tok[2]
                 yt == tok[3]
             IN  IF /\ Len(mt) \in {1, 2} /\ AllDigits(mt)
                    /\ Len(dt) \in {1, 2} /\ AllDigits(dt)
                    /\ Len(yt) = 4 /\ AllDigits(yt)
                    /\ NumberOf(mt) \in 1..12
                    /\ NumberOf(yt) >= 1
                    /\ NumberOf(dt) \in 1..DaysIn(NumberOf(yt), NumberOf(mt))
                 THEN [ok |-> TRUE, year |-> NumberOf(yt), month |-> NumberOf(mt)]
                 ELSE NoDate

\* lines 335-348: the date of a row, if its column 5 holds one; a datetime is
\* taken as it is, text is parsed, a number's text is no date
RowDate(cell) ==
    IF cell.t = "date"
    THEN [ok |-> TRUE, year |-> cell.v \div 10000, month |-> (cell.v \div 100) % 100]
    ELSE IF cell.t = "text" THEN strptime(Strip(cell.s))
    ELSE NoDate

\* line 369: f"{dt.year}-{dt.month:02d}"
MonthKeyOf(dt) == dt.year * 100 + dt.month

\* line 351: str(row[7] or '').strip().lower()
RefOf(row) == Lower(CellText(row.c7))

\* ActivityRowKind with the move filter testing "contains" (not "starts with")
ActivityRowKind_MoveAnywhere(row, sku) ==
    LET col1 == CellText(row.c1)
        date_str == CellText(row.c5)
    IN  IF /\ col1 # EmptyText
           /\ col1 \notin {TxtTotalsColon, TxtSKU}
           /\ IsNumber(row.c4) /\ row.c4.v > 0
        THEN "header"
        ELSE IF sku = EmptyText THEN "no_sku"
        ELSE IF /\ row.c5.t # "date"
                /\ date_str \in {EmptyText, TxtActivityDate, TxtBeginningBalance,
                                 TxtEndingBalance}
             THEN "no_date"
        ELSE IF ~RowDate(row.c5).ok THEN "bad_date"
        ELSE IF Contains(RefOf(row), TxtAdjust) \/ Contains(RefOf(row), TxtAdj)
             THEN "adjustment"
        ELSE IF Contains(RefOf(row), TxtMv) THEN "move"
        ELSE IF NumberOr0(row.c10) > 0 THEN "outbound"
        ELSE "no_out"

\* ActivityRowKind counting any quantity-out cell, positive or not
ActivityRowKind_AnyQuantity(row, sku) ==
    LET col1 == CellText(row.c1)
        date_str == CellText(row.c5)
    IN  IF /\ col1 # EmptyText
           /\ col1 \notin {TxtTotalsColon, TxtSKU}
           /\ IsNumber(row.c4) /\ row.c4.v > 0
        THEN "header"
        ELSE IF sku = EmptyText THEN "no_sku"
        ELSE IF /\ row.c5.t # "date"
                /\ date_str \in {EmptyText, TxtActivityDate, TxtBeginningBalance,
                                 TxtEndingBalance}
             THEN "no_date"
        ELSE IF ~RowDate(row.c5).ok THEN "bad_date"
        ELSE IF Contains(RefOf(row), TxtAdjust) \/ Contains(RefOf(row), TxtAdj)
             THEN "adjustment"
        ELSE IF StartsWith(RefOf(row), TxtMv) THEN "move"
        ELSE "outbound"

\* lines 321-368: what the loop body takes the row for, sku being the
\* current SKU header (empty for None)
ActivityRowKind(row, sku) ==
    LET col1 == CellText(row.c1)
        date_str == CellText(row.c5)
    IN  IF /\ col1 # EmptyText
           /\ col1 \notin {TxtTotalsColon, TxtSKU}
           /\ IsNumber(row.c4) /\ row.c4.v > 0
        THEN "header"
        ELSE IF sku = EmptyText THEN "no_sku"
        ELSE IF /\ row.c5.t # "date"
                /\ date_str \in {EmptyText, TxtActivityDate, TxtBeginningBalance,
                                 TxtEndingBalance}
             THEN "no_date"
        ELSE IF ~RowDate(row.c5).ok THEN "bad_date"
        ELSE IF Contains(RefOf(row), TxtAdjust) \/ Contains(RefOf(row), TxtAdj)
             THEN "adjustment"
        ELSE IF StartsWith(RefOf(row), TxtMv) THEN "move"
        ELSE IF NumberOr0(row.c10) > 0 THEN "outbound"
        ELSE "no_out"

\* line 370: monthly_out[sku][key] += qty, both levels being defaultdicts
AddQty(monthly_out, sku, key, qty) ==
    LET old == DictGet(monthly_out, sku)
        new == [k \in DOMAIN old \cup {key} |->
                  (IF k \in DOMAIN old THEN old[k] ELSE 0)
                  + (IF k = key THEN qty ELSE 0)]
    IN  [c \in DOMAIN monthly_out \cup {sku} |->
            IF c = sku THEN new ELSE monthly_out[c]]

\* lines 319-372: one pass of the loop over the rows of a file, on the
\* reader's state st = [monthly_out, current_sku, counts]
ActivityStep(st, row) ==
    LET kind == ActivityRowKind(row, st.current_sku)
    IN  IF kind = "header" THEN [st EXCEPT !.current_sku = CellText(row.c1)]
        ELSE IF kind = "adjustment"
             THEN [st EXCEPT !.counts.filtered_adjustments = @ + 1]
        ELSE IF kind = "move"
             THEN [st EXCEPT !.counts.filtered_moves = @ + 1]
        ELSE IF kind = "outbound"
             THEN [st EXCEPT
                     !.monthly_out = AddQty(@, st.current_sku,
                                            MonthKeyOf(RowDate(row.c5)),
                                            NumberOr0(row.c10)),
                     !.counts.total_transactions = @ + 1]
        ELSE st

ActivityState == [monthly_out |-> monthly_data, current_sku |-> current_sku,
                  counts |-> activity_counts]

BlankRow == ActivityRow(NoCell, NoCell, NoCell, NoCell, NoCell)
FileOpened == [open |-> TRUE, row |-> BlankRow]
RowRead(row) == [open |-> FALSE, row |-> row]

FilesOpened == Cardinality({i \in 1..Len(activityRead) : activityRead[i].open})

\* lines 306-317: the next file that exists is opened
OpenActivityFile ==
    /\ pc = "activity"
    /\ Len(activityRead) < MaxActivitySteps
    /\ current_sku' = EmptyText
    /\ activityRead' = Append(activityRead, FileOpened)
    /\ UNCHANGED <<pc, skus, skuOrder, view_items, monthly_data, abc_counts,
                   ReaderVars, activity_counts, MainVars, ViewItemVars>>

ReadingActivity ==
    /\ pc = "activity"
    /\ FilesOpened > 0
    /\ Len(activityRead) < MaxActivitySteps

\* lines 319-372: the loop body on the row
ReadActivityRow(row) ==
    /\ ReadingActivity
    /\ LET st == ActivityStep(ActivityState, row)
       IN  /\ monthly_data' = st.monthly_out
           /\ current_sku' = st.current_sku
           /\ activity_counts' = st.counts
    /\ activityRead' = Append(activityRead, RowRead(row))
    /\ UNCHANGED <<pc, skus, skuOrder, view_items, abc_counts, ReaderVars, MainVars, ViewItemVars>>

\* the loop body by the branch the row takes
ReadSkuHeader(row) ==
    /\ ActivityRowKind(row, current_sku) = "header"
    /\ ReadActivityRow(row)

ReadNonTransaction(row) ==
    /\ ActivityRowKind(row, current_sku) \in {"no_sku", "no_date", "bad_date"}
    /\ ReadActivityRow(row)

ReadAdjustment(row) ==
    /\ ActivityRowKind(row, current_sku) = "adjustment"
    /\ ReadActivityRow(row)

ReadMove(row) ==
    /\ ActivityRowKind(row, current_sku) = "move"
    /\ ReadActivityRow(row)

ReadTransaction(row) ==
    /\ ActivityRowKind(row, current_sku) \in {"outbound", "no_out"}
    /\ ReadActivityRow(row)

-----------------------------------------------------------------------------
(* The activity reader over any files and rows *)

SkuP1 == <<"P", "1">>
SkuP2 == <<"P", "2">>
TxtSO4471 == <<"S", "O", "-", "4", "4", "7", "1">>
TxtSO4472 == <<"S", "O", "-", "4", "4", "7", "2">>
TxtADJ002 == <<"A", "D", "J", "-", "0", "0", "2">>
TxtMV1002 == <<" ", "M", "V", "1", "0", "0", "2">>
TxtRMV7 == <<"R", "M", "V", "-", "7">>
TxtPO1 == <<"P", "O", "-", "1">>
TxtJan20 == <<"0", "1", "/", "2", "0", "/", "2", "0", "2", "4">>
TxtFeb3 == <<"2", "/", "3", "/", "2", "0", "2", "4">>
TxtIsoDate == <<"2", "0", "2", "4", "-", "0", "1", "-", "1", "5">>

\* SKU headers, outbound transactions dated by a datetime or by text,
\* adjustments, moves, a reference holding "mv" inside, balance lines, an
\* unparseable date and an inbound transaction
ActivityRows ==
    {ActivityRow(TextCell(SkuP1), NumCell(Num(1)), NoCell, NoCell, NoCell),
     ActivityRow(TextCell(SkuP2), NumCell(Num(1)), NoCell, NoCell, NoCell),
     ActivityRow(NoCell, NoCell, DateCell(2024, 1, 15), TextCell(TxtSO4471), NumCell(Num(12))),
     ActivityRow(NoCell, NoCell, TextCell(TxtJan20), TextCell(TxtSO4472), NumCell(Num(5))),
     ActivityRow(NoCell, NoCell, DateCell(2024, 2, 3), TextCell(TxtADJ002), NumCell(Num(7))),
     ActivityRow(NoCell, NoCell, DateCell(2024, 1, 15), TextCell(TxtMV1002), NumCell(Num(4))),
     ActivityRow(NoCell, NoCell, TextCell(TxtFeb3), NoCell, NumCell(1)),
     ActivityRow(NoCell, NoCell, TextCell(TxtIsoDate), TextCell(TxtSO4471), NumCell(Num(9))),
     ActivityRow(TextCell(TxtTotalsColon), NumCell(Num(3)), TextCell(TxtBeginningBalance), NoCell, NumCell(Num(50))),
     ActivityRow(NoCell, NoCell, DateCell(2024, 1, 15), TextCell(TxtRMV7), NumCell(Num(2))),
     ActivityRow(NoCell, NoCell, DateCell(2024, 2, 3), TextCell(TxtPO1), NoCell)}

InitActivity ==
    /\ pc = "activity"
    /\ skus = EmptyDict
    /\ skuOrder = << >>
    /\ current_warehouse = EmptyText
    /\ current_supplier = EmptyText
    /\ rowsRead = << >>
    /\ view_items = EmptyDict
    /\ monthly_data = EmptyDict
    /\ abc_counts = NoCounts
    /\ current_sku = EmptyText
    /\ activity_counts = NoActivityCounts
    /\ activityRead = << >>
    /\ files = AllFiles
    /\ stagesRun = ReaderStages
    /\ sql_written = FALSE
    /\ supplier_name = EmptyText
    /\ next_is_dimensions = FALSE
    /\ itemRead = NothingRead

NextActivity ==
    \/ OpenActivityFile
    \/ \E row \in ActivityRows :
          \/ ReadSkuHeader(row)
          \/ ReadNonTransaction(row)
          \/ ReadAdjustment(row)
          \/ ReadMove(row)
          \/ ReadTransaction(row)

SpecActivity == InitActivity /\ [][NextActivity]_vars

\* a SKU header row: a code in column 1 and a positive number in column 4
IsSkuHeader(row) ==
    /\ CellText(row.c1) # EmptyText
    /\ CellText(row.c1) \notin {TxtTotalsColon, TxtSKU}
    /\ IsNumber(row.c4) /\ row.c4.v > 0

HeaderAt(i) == ~activityRead[i].open /\ IsSkuHeader(activityRead[i].row)

\* the SKU header the i-th entry of the history stands under: the last
\* header before it with no file opened in between
HeadersAbove(i) ==
    {j \in 1..(i - 1) :
        /\ HeaderAt(j)
        /\ \A k \in (j + 1)..(i - 1) : ~activityRead[k].open /\ ~HeaderAt(k)}

\* the transaction rows under a header of sku, dated in month key, whose
\* reference neither contains "adj" nor starts with "mv"
SurvivingRows(sku, key) ==
    {i \in 1..Len(activityRead) :
        /\ ~activityRead[i].open
        /\ ~HeaderAt(i)
        /\ \E j \in HeadersAbove(i) : CellText(activityRead[j].row.c1) = sku
        /\ RowDate(activityRead[i].row.c5).ok
        /\ MonthKeyOf(RowDate(activityRead[i].row.c5)) = key
        /\ ~Contains(Lower(CellText(activityRead[i].row.c7)), TxtAdj)
        /\ ~StartsWith(Lower(CellText(activityRead[i].row.c7)), TxtMv)}

RECURSIVE SumPositiveOut(_)
SumPositiveOut(S) ==
    IF S = {} THEN 0
    ELSE LET i == CHOOSE i \in S : TRUE
             q == NumberOr0(activityRead[i].row.c10)
         IN  (IF q > 0 THEN q ELSE 0) + SumPositiveOut(S \ {i})

Bucket(sku, key) ==
    IF sku \in DOMAIN monthly_data /\ key \in DOMAIN monthly_data[sku]
    THEN monthly_data[sku][key] ELSE 0

SkusSeen ==
    DOMAIN monthly_data
    \cup {CellText(activityRead[i].row.c1) : i \in 1..Len(activityRead)}
MonthsSeen ==
    UNION {DOMAIN monthly_data[c] : c \in DOMAIN monthly_data}
    \cup {MonthKeyOf(RowDate(activityRead[i].row.c5)) : i \in 1..Len(activityRead)}

\* C13: after any files and rows, each bucket (sku, month) of the histogram
\* is the sum of the positive quantity-out values of the transaction rows
\* under that SKU header, dated in that month, whose lower-cased reference
\* neither contains "adj" nor starts with "mv"; so a row with reference
\* ADJ-002 or MV1002 changes no bucket and SO-4471 with quantity 12 adds 12.
ActivityBucketsAreFilteredSums ==
    \A sku \in SkusSeen, key \in MonthsSeen :
        Bucket(sku, key) = SumPositiveOut(SurvivingRows(sku, key))

\* under one header: SO-4471 with 12 out and an adjustment or a move of the
\* same SKU; the bucket of January 2024 holds 12 and there is no other
ActivityBucketsAreFilteredSums_Witness ==
    /\ Len(activityRead) = 4
    /\ HeaderAt(2)
    /\ CellText(activityRead[3].row.c7) = TxtSO4471
    /\ Lower(CellText(activityRead[4].row.c7)) \in {Lower(TxtADJ002), Lower(Strip(TxtMV1002))}
    /\ NumberOr0(activityRead[4].row.c10) > 0
    /\ DOMAIN monthly_data = {CellText(activityRead[2].row.c1)}
    /\ \A c \in DOMAIN monthly_data :
          DOMAIN monthly_data[c] = {202401} /\ monthly_data[c][202401] = Num(12)
    /\ activity_counts.filtered_adjustments + activity_counts.filtered_moves = 1

-----------------------------------------------------------------------------
(* The pipeline end to end *)

\* one record of weekly shipments 20 whose resolved unit cost is 5 and whose
\* resolved histogram is the six months 100, 110, 95, 105, 90, 120
EndToEndCase ==
    /\ Cardinality(DOMAIN skus) = 1
    /\ \A c \in DOMAIN skus :
         /\ skus[c].avg_ship_wk = Num(20)
         /\ CostFor(c, view_items) = Num(5)
         /\ MonthlyFor(c, monthly_data) = HistogramOf(EndToEndQuantities)

\* C14: one SKU with weekly shipments 20, resolved unit cost 5 and resolved
\* histogram [100,110,95,105,90,120] ends the pipeline with annual value
\* 5200, a measured (not estimated) CV below 0.5, xyz_class X and
\* abc_class A: cell AX.
EndToEndIsAX ==
    (AfterXyz /\ EndToEndCase) =>
        \A c \in DOMAIN skus :
            /\ skus[c].annual_value = 5200 * Scale * Scale
            /\ ~skus[c].xyz_estimated
            /\ CvLess(skus[c].cv, 1, 2)
            /\ skus[c].xyz_class = "X"
            /\ skus[c].abc_class = "A"

\* the case at the end of the pipeline, the record stored under the code
\* with the GT suffix and the item and histogram under the code without it
EndToEndIsAX_Witness ==
    /\ AfterXyz
    /\ EndToEndCase
    /\ DOMAIN skus = {<<"A", "G", "T">>}
    /\ DOMAIN view_items = {<<"A">>}
    /\ DOMAIN monthly_data = {<<"A">>}
    /\ \A c \in DOMAIN skus :
          /\ skus[c].abc_class = "A" /\ skus[c].xyz_class = "X"
          /\ skus[c].monthly_qty_out = HistogramOf(EndToEndQuantities)

-----------------------------------------------------------------------------
(* main: the file checks and the stages in order *)

\* lines 132-184: one pass of parse_depletion's loop, on the reader's state
\* st = [skus, order, warehouse, supplier]
DepletionStep(st, row) ==
    LET kind == RowKind(row)
        sku_code == Cell0(row)
    IN  IF kind = "warehouse"
        THEN [st EXCEPT !.warehouse = Strip(Remove(Cell0(row), TxtWarehouse))]
        ELSE IF kind = "skip" THEN st
        ELSE IF kind = "supplier"
             THEN [st EXCEPT !.supplier = resolve_supplier(Cell0(row))]
        ELSE IF sku_code \in DOMAIN st.skus
             THEN [st EXCEPT !.skus[sku_code] =
                                MergeSighting(st.skus[sku_code], row, st.warehouse)]
        ELSE [st EXCEPT
                !.skus = [c \in DOMAIN st.skus \cup {sku_code} |->
                            IF c = sku_code
                            THEN FirstSighting(sku_code, row, st.supplier, st.warehouse)
                            ELSE st.skus[c]],
                !.order = Append(st.order, sku_code)]

RECURSIVE DepletionFold(_, _)
DepletionFold(st, rows) ==
    IF rows = << >> THEN st
    ELSE DepletionFold(DepletionStep(st, Head(rows)), Tail(rows))

\* lines 119-198: parse_depletion on a sheet
parse_depletion(rows) ==
    DepletionFold([skus |-> EmptyDict, order |-> << >>,
                   warehouse |-> EmptyText, supplier |-> EmptyText], rows)

RECURSIVE ActivityFold(_, _)
ActivityFold(st, rows) ==
    IF rows = << >> THEN st
    ELSE ActivityFold(ActivityStep(st, Head(rows)), Tail(rows))

\* lines 306-375: one pass of the loop over the files, a file that does
\* not exist being skipped; current_sku starts as None in every file
ActivityFile(st, i, exists, contents) ==
    IF i \notin exists THEN st
    ELSE ActivityFold([st EXCEPT !.current_sku = EmptyText], contents[i])

\* lines 811-828: the file checks; sys.exit(1) when a mandatory file is missing
CheckFiles ==
    /\ pc = "start"
    /\ pc' = IF ~files.depletion \/ ~files.view_item THEN "exit" ELSE "checked"
    /\ UNCHANGED <<skus, skuOrder, view_items, monthly_data, abc_counts,
                   ReaderVars, ActivityVars, MainVars, ViewItemVars>>

\* line 831
ParseDepletion ==
    /\ pc = "checked"
    /\ LET r == parse_depletion(files.sheet)
       IN  /\ skus' = r.skus
           /\ skuOrder' = r.order
    /\ pc' = "depletion_parsed"
    /\ stagesRun' = Append(stagesRun, "parse_depletion")
    /\ UNCHANGED <<view_items, monthly_data, abc_counts, ReaderVars, ActivityVars,
                   files, sql_written, ViewItemVars>>

\* line 832: the items parse_view_item returns for the workbook
ParseViewItem ==
    /\ pc = "depletion_parsed"
    /\ view_items' = parse_view_item(files.workbook)
    /\ pc' = "view_item_parsed"
    /\ stagesRun' = Append(stagesRun, "parse_view_item")
    /\ UNCHANGED <<skus, skuOrder, monthly_data, abc_counts, ReaderVars,
                   ActivityVars, files, sql_written, ViewItemVars>>

\* the i-th activity report: a header of SKU P1 and its outbound
\* transactions of month i, among them one adjustment; a header of SKU P2
\* and its transactions, none of a positive quantity
ActivityFileRows(i) ==
    <<ActivityRow(TextCell(SkuP1), NumCell(Num(1)), NoCell, NoCell, NoCell),
      ActivityRow(NoCell, NoCell, DateCell(2024, i, 15), TextCell(TxtSO4471), NumCell(Num(10 + i))),
      ActivityRow(NoCell, NoCell, DateCell(2024, i, 20), TextCell(TxtADJ002), NumCell(Num(7))),
      ActivityRow(TextCell(SkuP2), NumCell(Num(1)), NoCell, NoCell, NoCell),
      ActivityRow(NoCell, NoCell, DateCell(2024, i, 21), TextCell(TxtSO4472), NumCell(0)),
      ActivityRow(NoCell, NoCell, DateCell(2024, i + 6, 5), TextCell(TxtSO4472), NumCell(-Num(1))),
      ActivityRow(NoCell, NoCell, DateCell(2024, i, 22), TextCell(TxtPO1), NoCell)>>
ActivityFileContents == [i \in ACTIVITY_FILES |-> ActivityFileRows(i)]

FileSkipped == [open |-> FALSE, row |-> BlankRow]

\* line 833, lines 306-375: parse_activity_reports takes the next of the
\* six files
ReadActivityFile ==
    /\ pc = "view_item_parsed"
    /\ Len(activityRead) < Len(ActivityFileContents)
    /\ LET i == Len(activityRead) + 1
           st == ActivityFile(ActivityState, i, files.activity, ActivityFileContents)
       IN  /\ monthly_data' = st.monthly_out
           /\ current_sku' = st.current_sku
           /\ activity_counts' = st.counts
           /\ activityRead' = Append(activityRead,
                                     IF i \in files.activity THEN FileOpened
                                     ELSE FileSkipped)
    /\ UNCHANGED <<pc, skus, skuOrder, view_items, abc_counts, ReaderVars,
                   MainVars, ViewItemVars>>

\* line 833, lines 377-380: parse_activity_reports returns after the last
\* file
ParseActivityReports ==
    /\ pc = "view_item_parsed"
    /\ Len(activityRead) = Len(ActivityFileContents)
    /\ pc' = "parsed"
    /\ stagesRun' = Append(stagesRun, "parse_activity_reports")
    /\ UNCHANGED <<skus, skuOrder, view_items, monthly_data, abc_counts, ReaderVars,
                   ActivityVars, files, sql_written, ViewItemVars>>

\* line 845
PrintMatrixSummary ==
    /\ pc = "xyz"
    /\ pc' = "summary"
    /\ stagesRun' = Append(stagesRun, "print_matrix_summary")
    /\ UNCHANGED <<skus, skuOrder, view_items, monthly_data, abc_counts,
                   ReaderVars, ActivityVars, files, sql_written, ViewItemVars>>

\* line 848: generate_sql writes OUTPUT_SQL (line 749)
GenerateSql ==
    /\ pc = "summary"
    /\ pc' = "done"
    /\ sql_written' = TRUE
    /\ stagesRun' = Append(stagesRun, "generate_sql")
    /\ UNCHANGED <<skus, skuOrder, view_items, monthly_data, abc_counts,
                   ReaderVars, ActivityVars, files, ViewItemVars>>

\* a SKU data row of the depletion sheet with the given velocity
SkuRowOf(code, ship) ==
    DepletionRow(TextCell(code), NumCell(Num(2)), NoCell, NumCell(Num(1)), NumCell(Num(3)),
                 NumCell(Num(1)), NumCell(ship), NumCell(Num(4)), NoCell)

\* depletion sheets: no row, a header line only, one SKU under a warehouse and
\* a supplier, two SKUs one of them seen twice
DepletionSheets ==
    {<< >>,
     <<DepletionRow(TextCell(TxtSKU), TextCell(TxtTotal), NoCell, NoCell, NoCell, NoCell, NoCell, NoCell, NoCell)>>,
     <<DepletionRow(TextCell(TxtKent), NoCell, NoCell, NoCell, NoCell, NoCell, NoCell, NoCell, NoCell),
       DepletionRow(TextCell(TxtAmc), NoCell, NoCell, NoCell, NoCell, NoCell, NoCell, NoCell, NoCell),
       SkuRowOf(SkuP1, Num(20))>>,
     <<SkuRowOf(SkuP1, Num(4)), SkuRowOf(SkuP2, Num(1)), SkuRowOf(SkuP1, Num(4))>>}

ItemMasters == {<< >>, <<<<ItemTextRow(TxtDimensionalUOM)>>>>,
                <<<<ItemSkuRow(SkuP1, Num(5))>>>>}

\* any of the eight files missing; a file that exists holds any of the contents
InitMain ==
    /\ pc = "start"
    /\ skus = EmptyDict
    /\ skuOrder = << >>
    /\ view_items = EmptyDict
    /\ monthly_data = EmptyDict
    /\ abc_counts = NoCounts
    /\ current_warehouse = EmptyText
    /\ current_supplier = EmptyText
    /\ rowsRead = << >>
    /\ current_sku = EmptyText
    /\ activity_counts = NoActivityCounts
    /\ activityRead = << >>
    /\ stagesRun = << >>
    /\ sql_written = FALSE
    /\ supplier_name = EmptyText
    /\ next_is_dimensions = FALSE
    /\ itemRead = NothingRead
    /\ \E d \in BOOLEAN, v \in BOOLEAN, a \in SUBSET ACTIVITY_FILES :
        \E sheet \in (IF d THEN DepletionSheets ELSE {<< >>}),
           workbook \in (IF v THEN ItemMasters ELSE {<< >>}) :
            files = [depletion |-> d, view_item |-> v, activity |-> a,
                     sheet |-> sheet, workbook |-> workbook]

NextMain ==
    \/ CheckFiles
    \/ ParseDepletion
    \/ ParseViewItem
    \/ ReadActivityFile
    \/ ParseActivityReports
    \/ MergeMasterData
    \/ ComputeAbc
    \/ ComputeXyz
    \/ PrintMatrixSummary
    \/ GenerateSql

SpecMain == InitMain /\ [][NextMain]_vars

AllStages ==
    ReaderStages \o <<"merge_master_data", "compute_abc", "compute_xyz",
                      "print_matrix_summary", "generate_sql">>

MandatoryPresent == files.depletion /\ files.view_item

\* C15: if the depletion file or the item master file is missing, the run
\* exits before any reader, classifier or the emitter runs and writes no
\* output; if only activity files are missing (any of them, or all), the
\* run does not abort: it goes through every stage and writes the output.
RunAbortsOnlyOnMandatoryFiles ==
    /\ ~MandatoryPresent =>
          /\ pc \in {"start", "exit"}
          /\ stagesRun = << >>
          /\ ~sql_written
    /\ MandatoryPresent =>
          /\ pc \notin {"exit", "raised"}
          /\ pc = "done" => stagesRun = AllStages /\ sql_written

-----------------------------------------------------------------------------
(* The two classes of a record along the pipeline *)

AbcUnset(c) == skus[c].abc_class = ""
XyzUnset(c) == skus[c].xyz_class = ""

\* C16, as stated: in every state the pipeline reaches (after depletion
\* parsing, after the merge, after compute_abc, after compute_xyz) every
\* record has abc_class and xyz_class both unset or both set.
ClassesBothOrNeither ==
    \A c \in DOMAIN skus :
        \/ AbcUnset(c) /\ XyzUnset(c)
        \/ ~AbcUnset(c) /\ ~XyzUnset(c)

\* C16, amended: after depletion parsing and after the merge every record
\* has both classes unset; after compute_xyz every record has both set; in
\* between, after compute_abc and before compute_xyz, every record has
\* abc_class set and xyz_class still unset.
ClassesBothOrNeitherButBetween ==
    /\ pc \in {"parsed", "merged"} =>
          \A c \in DOMAIN skus : AbcUnset(c) /\ XyzUnset(c)
    /\ pc = "abc" =>
          \A c \in DOMAIN skus : ~AbcUnset(c) /\ XyzUnset(c)
    /\ pc = "xyz" =>
          \A c \in DOMAIN skus : ~AbcUnset(c) /\ ~XyzUnset(c)

\* after compute_xyz: two records with both classes set, one of velocity 0
\* and no histogram (infinite cv), one measured
ClassesBothOrNeitherButBetween_Witness ==
    /\ pc = "xyz"
    /\ \E x, y \in DOMAIN skus :
         /\ skus[x].cv = CvInf /\ skus[x].xyz_estimated
         /\ ~skus[y].xyz_estimated
         /\ \A c \in {x, y} : ~AbcUnset(c) /\ ~XyzUnset(c)

-----------------------------------------------------------------------------
(* The annual consumption value *)

\* C17: after compute_abc every record's annual value is its weekly
\* shipments times 52 times its resolved unit cost, and is not negative,
\* whatever number the depletion reader took as the weekly shipments and
\* whatever the item master holds.
AnnualValueIsProductAndNonNegative ==
    AfterAbc =>
        \A c \in DOMAIN skus :
            /\ skus[c].annual_value
                  = skus[c].avg_ship_wk * 52 * CostFor(c, view_items)
            /\ skus[c].annual_value >= 0

-----------------------------------------------------------------------------
(* The supplier normalizer, as the depletion reader applies it *)

SupplierRowsRead == {i \in 1..Len(rowsRead) : RowKind(rowsRead[i]) = "supplier"}

\* the aliases that occur in the lower-cased, trimmed label
AliasesIn(label) ==
    {i \in 1..Len(SUPPLIER_MAP) : Contains(Strip(Lower(label)), SUPPLIER_MAP[i][1])}

\* the code of the first of them in declaration order, or the trimmed label
CodeOfFirstAlias(label) ==
    IF AliasesIn(label) = {} THEN Strip(label)
    ELSE SUPPLIER_MAP[CHOOSE i \in AliasesIn(label) :
                         \A j \in AliasesIn(label) : i <= j][2]

\* C18: resolve_supplier gives, for any label, the code of the first alias
\* in declaration order that occurs in the lower-cased, trimmed label (the
\* first one wins even if a later, longer one occurs too), and the trimmed
\* label itself when none occurs: current_supplier is that value for the
\* label of the last supplier line read.
SupplierIsFirstAliasInOrder ==
    IF SupplierRowsRead = {} THEN current_supplier = EmptyText
    ELSE LET last == CHOOSE i \in SupplierRowsRead :
                        \A j \in SupplierRowsRead : j <= i
         IN  current_supplier = CodeOfFirstAlias(rowsRead[last].c0.s)

\* labels resolved one after the other: one in which the aliases "amc" and
\* the later, longer "nuode" both occur gives AMC, one with no alias passes
\* through, one with spaces around gives AMC
SupplierIsFirstAliasInOrder_Witness ==
    /\ Len(rowsRead) = 3
    /\ rowsRead[1].c0.s = TxtAcme
    /\ rowsRead[2].c0.s = TxtAmc
    /\ rowsRead[3].c0.s = TxtTwoAliases
    /\ Cardinality(AliasesIn(TxtTwoAliases)) = 2
    /\ current_supplier = <<"A", "M", "C">>

-----------------------------------------------------------------------------
(* Records without an item or without a histogram *)

Unmatched(c, d) ==
    c \notin DOMAIN d /\ RStripGT(c) \notin DOMAIN d /\ PlusGT(c) \notin DOMAIN d

\* C19: after merge_master_data, compute_abc and compute_xyz have run on a
\* non-empty record set, every record has abc_class in {A, B, C} and
\* xyz_class in {X, Y, Z}, whether or not it matched an item (unmatched:
\* unit cost 0) or a histogram (unmatched: the estimate), and no stage
\* raises.
EveryRecordClassedWhateverMatched ==
    DOMAIN skus # {} =>
        /\ pc # "raised"
        /\ pc = "xyz" =>
              \A c \in DOMAIN skus :
                  /\ skus[c].abc_class \in {"A", "B", "C"}
                  /\ skus[c].xyz_class \in {"X", "Y", "Z"}
                  /\ Unmatched(c, view_items) => skus[c].unit_cost = 0
                  /\ Unmatched(c, monthly_data) => skus[c].xyz_estimated

\* a record with neither item nor histogram, classed, beside a record with
\* both, measured
EveryRecordClassedWhateverMatched_Witness ==
    /\ pc = "xyz"
    /\ \E x, y \in DOMAIN skus :
         /\ Unmatched(x, view_items) /\ Unmatched(x, monthly_data)
         /\ skus[x].unit_cost = 0 /\ skus[x].xyz_estimated
         /\ skus[x].abc_class \in {"A", "B", "C"}
         /\ skus[x].xyz_class \in {"X", "Y", "Z"}
         /\ ~Unmatched(y, view_items) /\ ~skus[y].xyz_estimated
         /\ skus[y].abc_class \in {"A", "B", "C"}
         /\ skus[y].xyz_class \in {"X", "Y", "Z"}

-----------------------------------------------------------------------------
(* Supplier header or SKU data row *)

\* a step that reads a row with a non-empty first cell that is no warehouse
\* marker, header literal or aggregate row
EligibleStep ==
    /\ Len(rowsRead') = Len(rowsRead) + 1
    /\ Cell0(NewRow) # EmptyText
    /\ ~StartsWith(Cell0(NewRow), TxtWarehouse)
    /\ Cell0(NewRow) # TxtSKU
    /\ ~StartsWith(Cell0(NewRow), TxtTotal)
    /\ ~StartsWith(Cell0(NewRow), TxtGrand)
    /\ ~StartsWith(Cell0(NewRow), TxtItemActivity)

\* the normalized first cell becomes current_supplier, no record is created
\* or updated
TreatedAsSupplierHeader ==
    /\ current_supplier' = resolve_supplier(Cell0(NewRow))
    /\ skus' = skus
    /\ skuOrder' = skuOrder

\* a record of the row's code is created, or the one there is takes the
\* row's weekly shipments; current_supplier stays
TreatedAsSkuDataRow ==
    /\ current_supplier' = current_supplier
    /\ Cell0(NewRow) \in DOMAIN skus'
    /\ IF Cell0(NewRow) \in DOMAIN skus
       THEN /\ skuOrder' = skuOrder
            /\ skus'[Cell0(NewRow)].avg_ship_wk
                  = skus[Cell0(NewRow)].avg_ship_wk + NumberOr0(NewRow.c16)
       ELSE skuOrder' = Append(skuOrder, Cell0(NewRow))

\* C20, as stated: such a row is treated as a supplier header whenever it
\* has no number in the beginning-inventory column and no number anywhere
\* in columns 2 to 17; a row with no number as beginning inventory but a
\* number elsewhere in that range is treated as a SKU data row.
SupplierHeaderIffNoNumber ==
    [][EligibleStep =>
          /\ (~IsNumber(NewRow.c2) /\ ~AnyNumber(NewRow)) => TreatedAsSupplierHeader
          /\ (~IsNumber(NewRow.c2) /\ AnyNumber(NewRow)) => TreatedAsSkuDataRow]_vars

HasFromMarker(row) == row.c3.t = "text" /\ Contains(row.c3.s, TxtItemActivityFrom)

\* C20, amended: such a row is treated as a supplier header whenever its
\* beginning-inventory cell is empty and either its column 3 holds the text
\* "Item Activity From" or no cell of columns 2 to 17 holds a number; any
\* other such row (a beginning-inventory cell holding a number or text, or
\* an empty one with a number elsewhere in the range and no such text in
\* column 3) is treated as a SKU data row.
SupplierHeaderIffEmptyAndMarkerOrNoNumber ==
    [][EligibleStep =>
          IF NewRow.c2.t = "none" /\ (HasFromMarker(NewRow) \/ ~AnyNumber(NewRow))
          THEN TreatedAsSupplierHeader
          ELSE TreatedAsSkuDataRow]_vars

\* a row with text as beginning inventory and no number was read as a SKU
\* data row, then a row with the marker in column 3 and a number in the
\* range as a supplier header
SupplierHeaderIffEmptyAndMarkerOrNoNumber_Witness ==
    /\ Len(rowsRead) = 2
    /\ rowsRead[1].c2.t = "text" /\ ~AnyNumber(rowsRead[1])
    /\ rowsRead[2].c2.t = "none" /\ HasFromMarker(rowsRead[2]) /\ AnyNumber(rowsRead[2])
    /\ DOMAIN skus = {Cell0(rowsRead[1])}
    /\ current_supplier = resolve_supplier(Cell0(rowsRead[2]))
    /\ current_supplier # EmptyText

-----------------------------------------------------------------------------
(* The section context of the depletion reader *)

\* the first cell of the row just read starts with the warehouse marker
WarehouseMarkerRead == StartsWith(Cell0(NewRow), TxtWarehouse)

\* the row just read is discarded: empty first cell, header literal,
\* aggregate row or title line
DiscardedRead == ~WarehouseMarkerRead /\ RowKind(NewRow) = "skip"

\* C21: current_warehouse and current_supplier start empty; the first
\* changes only on a row whose first cell starts with the warehouse marker,
\* the second only on a supplier header row; SKU data rows and discarded
\* rows leave both unchanged; warehouse-marker, supplier-header and
\* discarded rows create or modify no SKU record.
SectionContextFrame ==
    /\ (rowsRead = << >> => current_warehouse = EmptyText /\ current_supplier = EmptyText)
    /\ [][Len(rowsRead') = Len(rowsRead) + 1 =>
            /\ current_warehouse' # current_warehouse => WarehouseMarkerRead
            /\ current_supplier' # current_supplier => RowKind(NewRow) = "supplier"
            /\ (RowKind(NewRow) = "sku" \/ DiscardedRead) =>
                  /\ current_warehouse' = current_warehouse
                  /\ current_supplier' = current_supplier
            /\ (WarehouseMarkerRead \/ RowKind(NewRow) = "supplier" \/ DiscardedRead) =>
                  /\ skus' = skus
                  /\ skuOrder' = skuOrder]_vars

\* a warehouse marker, a supplier line and a SKU data row read in that
\* order: the record carries both, and both are still the context
SectionContextFrame_Witness ==
    /\ Len(rowsRead) = 3
    /\ RowKind(rowsRead[1]) = "warehouse"
    /\ RowKind(rowsRead[2]) = "supplier"
    /\ RowKind(rowsRead[3]) = "sku"
    /\ current_warehouse # EmptyText
    /\ current_supplier = <<"A", "M", "C">>
    /\ \A c \in DOMAIN skus :
          skus[c].warehouse = current_warehouse /\ skus[c].supplier = current_supplier
    /\ Cardinality(DOMAIN skus) = 1

-----------------------------------------------------------------------------
(* The item master reader over any sheets and rows *)

\* two SKU codes, a section header, the dimensional label and another
\* label, and rows with an empty first cell: full dimensions, a width of
\* 0, no unit-of-measure label, no length
ItemRows ==
    {ItemSkuRow(SkuX, Num(5)),
     ItemSkuRow(SkuY, Num(1)),
     ItemTextRow(TxtAmc),
     ItemTextRow(TxtDimensionalUOM),
     ItemTextRow(TxtStorageUOM),
     ItemDimRow(TextCell(TxtEach), NumCell(Num(1)), NumCell(Num(2)),
                NumCell(Num(3)), NumCell(Num(4)), NumCell(Num(1))),
     ItemDimRow(TextCell(TxtEach), NumCell(Num(6)), NumCell(Num(3)),
                NumCell(0), NumCell(Num(4)), NumCell(Num(2))),
     ItemDimRow(NoCell, NumCell(Num(1)), NumCell(Num(2)),
                NumCell(Num(3)), NumCell(Num(4)), NumCell(Num(1))),
     ItemDimRow(TextCell(TxtEach), NumCell(Num(1)), NoCell,
                NumCell(Num(3)), NumCell(Num(4)), NumCell(Num(1)))}

InitViewItem ==
    /\ pc = "view_item"
    /\ skus = EmptyDict
    /\ skuOrder = << >>
    /\ current_warehouse = EmptyText
    /\ current_supplier = EmptyText
    /\ rowsRead = << >>
    /\ view_items = EmptyDict
    /\ monthly_data = EmptyDict
    /\ abc_counts = NoCounts
    /\ current_sku = EmptyText
    /\ activity_counts = NoActivityCounts
    /\ activityRead = << >>
    /\ files = AllFiles
    /\ stagesRun = <<"parse_depletion", "parse_view_item">>
    /\ sql_written = FALSE
    /\ supplier_name = EmptyText
    /\ next_is_dimensions = FALSE
    /\ itemRead = NothingRead

NextViewItem ==
    \/ OpenSheet
    \/ \E row \in ItemRows :
          \/ ReadLabelRow(row)
          \/ ReadItemSkuRow(row)
          \/ ReadSectionRow(row)
          \/ ReadDimensionsRow(row)
          \/ ReadOtherItemRow(row)

SpecViewItem == InitViewItem /\ [][NextViewItem]_vars

\* the dimension fields of an item record
DimensionsOf(item) == <<item.length_in, item.width_in, item.height_in>>

Populated(item) == DimensionsOf(item) # <<0, 0, 0>>

\* the step reads a row of the sheet
ItemRowStep == itemRead'.kind = "row"

\* C22: over the whole source, a SKU code in more than one SKU row
\* included, once a SKU's dimension fields are populated no later row
\* changes them: they are those of the first dimensions row that
\* populated them.
DimensionsFirstWins ==
    [][\A c \in DOMAIN view_items :
          Populated(view_items[c]) =>
             /\ c \in DOMAIN view_items'
             /\ DimensionsOf(view_items'[c]) = DimensionsOf(view_items[c])]_vars

\* C23: through a dimensions row the open SKU's dimension fields are
\* populated only if the unit-of-measure label and the unit count are both
\* present and length, width and height all read positive; every item
\* record has length, width and height all zero or all positive.
DimensionsAllOrNone ==
    \A c \in DOMAIN view_items :
       LET item == view_items[c]
       IN  \/ DimensionsOf(item) = <<0, 0, 0>>
           \/ item.length_in > 0 /\ item.width_in > 0 /\ item.height_in > 0

\* the step gives the record of c dimension fields read from the row
DimensionsWritten(c) ==
    /\ c \in DOMAIN view_items'
    /\ Populated(view_items'[c])
    /\ c \in DOMAIN view_items => DimensionsOf(view_items'[c]) # DimensionsOf(view_items[c])

\* the row read before this step was the dimensional-UOM label row
AfterLabelRow == itemRead.kind = "row" /\ Cell0(itemRead.row) = TxtDimensionalUOM

\* a SKU's dimension fields are written only from an empty-first-cell row
\* that immediately follows the label row while that SKU is the open SKU
\* of the same sheet
DimensionsOnlyAfterLabel ==
    \A c \in DOMAIN view_items' :
       DimensionsWritten(c) =>
          /\ ItemRowStep
          /\ Cell0(itemRead'.row) = EmptyText
          /\ AfterLabelRow
          /\ current_sku = c
          /\ current_sku' = c

\* C24: the look-ahead flag armed by the dimensional-UOM label row is
\* consumed by exactly the following row: dimension fields are written only
\* from an empty-first-cell row immediately following that label row while
\* the SKU is the open SKU of the same sheet, and the flag is unarmed after
\* that following row whether or not dimensions were captured.
FlagConsumedByFollowingRow ==
    [][/\ DimensionsOnlyAfterLabel
       /\ (AfterLabelRow /\ ItemRowStep) => ~next_is_dimensions']_vars

\* C24 as the code has it: the flag is unarmed after an empty-first-cell
\* row that follows the label row when a SKU is open, and after any row
\* with another first cell than the label; with no SKU open in the sheet an
\* empty-first-cell row leaves it armed, and no dimensions are written.
FlagConsumedWhenSkuOpen ==
    [][/\ DimensionsOnlyAfterLabel
       /\ (AfterLabelRow /\ ItemRowStep) =>
             /\ (current_sku # EmptyText \/ Cell0(itemRead'.row) # EmptyText) =>
                   (next_is_dimensions' <=> Cell0(itemRead'.row) = TxtDimensionalUOM)
             /\ (current_sku = EmptyText /\ Cell0(itemRead'.row) = EmptyText) =>
                   /\ next_is_dimensions'
                   /\ view_items' = view_items]_vars

\* the label row then a full dimensions row read while X100 is open: its
\* dimensions are captured and the flag is unarmed
FlagConsumedWhenSkuOpen_Witness ==
    /\ itemRead.kind = "row"
    /\ Cell0(itemRead.row) = EmptyText
    /\ current_sku = SkuX
    /\ SkuX \in DOMAIN view_items
    /\ DimensionsOf(view_items[SkuX]) = <<Num(2), Num(3), Num(4)>>
    /\ itemRead.row.c6 = NumCell(Num(2))
    /\ HasDimUom(itemRead.row.c2)
    /\ ~next_is_dimensions

-----------------------------------------------------------------------------
(* The per-class counters of compute_abc *)

\* the number of records of the class
RecordsOfClass(class) == Cardinality({c \in DOMAIN skus : skus[c].abc_class = class})

\* C25: after compute_abc on a record set of positive total value, a_count,
\* b_count and c_count are the numbers of records of class A, B and C, the
\* forced-A rule included; all three are non-negative and they sum to the
\* number of records.
AbcCountsMatchClasses ==
    (AfterAbc /\ TotalValue > 0) =>
        /\ abc_counts.a = RecordsOfClass("A")
        /\ abc_counts.b = RecordsOfClass("B")
        /\ abc_counts.c = RecordsOfClass("C")
        /\ abc_counts.a >= 0 /\ abc_counts.b >= 0 /\ abc_counts.c >= 0
        /\ abc_counts.a + abc_counts.b + abc_counts.c = Cardinality(DOMAIN skus)

-----------------------------------------------------------------------------
(* Measured or estimated *)

\* C26: a record is flagged xyz_is_estimated iff its resolved histogram
\* has fewer than 6 months; its cv then comes from the weekly velocity
\* alone: >= 10 gives 0.6, 1 <= v < 10 gives 0.8, 0 < v < 1 gives 1.2,
\* exactly 0 gives infinity; with at least 6 months the record is not
\* flagged and its cv is computed from the histogram values.
EstimatedIffShortHistory ==
    AfterXyz =>
        \A c \in DOMAIN skus :
            LET v == skus[c].avg_ship_wk
                cv == skus[c].cv
            IN  /\ skus[c].xyz_estimated <=> Months(c) < 6
                /\ Months(c) < 6 =>
                      /\ v >= Num(10) => cv = CvFinite(36, 100)
                      /\ (Num(1) <= v /\ v < Num(10)) => cv = CvFinite(64, 100)
                      /\ (0 < v /\ v < Num(1)) => cv = CvFinite(144, 100)
                      /\ v = 0 => cv.kind = "inf"
                /\ Months(c) >= 6 =>
                      /\ cv = MeasuredCv(MonthlyFor(c, monthly_data))
                      /\ skus[c].monthly_qty_out = MonthlyFor(c, monthly_data)

\* one record with 5 months and a velocity of 0.5, estimated at 1.2, and
\* one with 6 months, measured
EstimatedIffShortHistory_Witness ==
    /\ AfterXyz
    /\ \E x, y \in DOMAIN skus :
         /\ Months(x) = 5
         /\ skus[x].avg_ship_wk = 1
         /\ skus[x].cv = CvFinite(144, 100)
         /\ skus[x].xyz_estimated
         /\ Months(y) = 6
         /\ ~skus[y].xyz_estimated
         /\ skus[y].cv.kind = "fin"

\* C27: after compute_xyz no record flagged xyz_is_estimated has class X:
\* every estimated record is Y or Z, and a record of class X has a
\* measured histogram of at least 6 months.
EstimatedNeverX ==
    AfterXyz =>
        \A c \in DOMAIN skus :
            /\ skus[c].xyz_estimated => skus[c].xyz_class \in {"Y", "Z"}
            /\ skus[c].xyz_class = "X" =>
                  /\ ~skus[c].xyz_estimated
                  /\ Months(c) >= 6
                  /\ Cardinality(DOMAIN skus[c].monthly_qty_out) >= 6

\* an estimated fast mover (class Y) next to a measured record of class X
EstimatedNeverX_Witness ==
    /\ AfterXyz
    /\ \E x, y \in DOMAIN skus :
         /\ skus[x].xyz_estimated
         /\ skus[x].avg_ship_wk >= Num(10)
         /\ skus[x].xyz_class = "Y"
         /\ ~skus[y].xyz_estimated
         /\ skus[y].xyz_class = "X"

-----------------------------------------------------------------------------
(* The histograms the activity reader hands to compute_xyz *)

\* the record went through the measured branch of compute_xyz
Measured(c) == skus[c].xyz_class # "" /\ ~skus[c].xyz_estimated

\* C28: every month bucket of the activity reader's output is strictly
\* positive and every SKU key has at least one bucket; hence for every
\* record classified on the measured path the mean is positive, the cv is a
\* finite non-negative number and the mean-zero infinity branch is not
\* taken.
ActivityBucketsPositive ==
    /\ \A c \in DOMAIN monthly_data :
          /\ DOMAIN monthly_data[c] # {}
          /\ \A k \in DOMAIN monthly_data[c] : monthly_data[c][k] > 0
    /\ \A c \in DOMAIN skus :
          Measured(c) =>
             /\ SumOver(skus[c].monthly_qty_out, DOMAIN skus[c].monthly_qty_out) > 0
             /\ skus[c].cv.kind = "fin"
             /\ skus[c].cv.num >= 0
             /\ skus[c].cv.den > 0

\* all six reports read: P1 is measured on its six months, P2, whose
\* transactions have no positive quantity, has no histogram and is estimated
ActivityBucketsPositive_Witness ==
    /\ pc = "done"
    /\ files.activity = ACTIVITY_FILES
    /\ DOMAIN monthly_data = {SkuP1}
    /\ {SkuP1, SkuP2} \subseteq DOMAIN skus
    /\ Measured(SkuP1)
    /\ Cardinality(DOMAIN skus[SkuP1].monthly_qty_out) = 6
    /\ skus[SkuP1].cv.kind = "fin"
    /\ skus[SkuP2].xyz_estimated

=============================================================================
